---- MODULE Spec2Model ----
(***************************************************************************)
(* A model of the Viva Real scraper: the validator/cleaner                 *)
(* (src/src/validators.py), the extractors (src/src/extractors.py), the    *)
(* scrape orchestration (src/src/scraper.py) and the batch loop            *)
(* (src/app.py).                                                           *)
(*                                                                         *)
(* Strings are sequences of tokens.  A token is either one character (a    *)
(* digit, ".", ",", "-", "/", "?", " ") or a chunk of characters that      *)
(* holds no digit, no whitespace, no "/" and no "?" ("https:",             *)
(* "www.google.com", "mapa-do-site", ...).  Every string operation of the  *)
(* code (strip, startswith, split, substring test, regex match, re.sub)    *)
(* is computed on the tokens.                                              *)
(***************************************************************************)
EXTENDS Integers, Sequences, FiniteSets, TLC

\* ------------------------------------------------------------------------
\* Bounds of the model
\* ------------------------------------------------------------------------
MaxZipDigits == 9
MaxImgListLen == 2
MaxLongImgList == 17
MaxNumDigits == 7

MaxNetLog == 2
MaxJsonLd == 1
MaxInlineScripts == 2
MaxBatch == 3
MaxHistory == 1

VARIABLES
    \* clean_data applied to a raw record, then to its own output
    raw, cleaned, recleaned, cleanRaised, cpc,
    \* extract_images: the position in the function, its locals, the strategies
    \* called so far with what each returned, and the images of the cleaned record
    ipc, use_ai, found_images, stratRun, stratOut, stratFailed, imgRaised, recImages,
    \* extract_location: the position in the function, the location dict, what the
    \* adapter returned, whether it was called, the location of the cleaned record,
    \* the location dict as it was when the AI step was reached, and the number
    \* of calls of the adapter
    lpc, found_location, ai_location, aiCalled, recLocation, loc_before_ai, oracleCalls,
    \* scrape: the position in the method, self.driver, the requested URL, the
    \* driver.get calls, the attempts and warnings of the page-ready wait, the
    \* markup read, the data dict (and its value after the first extraction),
    \* the re-extraction passes started and finished, the calls made so far,
    \* where an exception left the method, and the returned record
    spc, driver, req_url, navGets, waitFailures, waitWarnings, page_source, raw_data, firstData,
    reStarted, reDone, calls, raisedBy, record,
    \* the retry wrapper of the page-ready wait: the delay it would sleep next,
    \* the delays it slept, the exception of each failed attempt, and the
    \* exception it raised
    current_delay, waitDelays, waitExcs, waitRaised,
    \* the navigation check of scrape: each current_url read after a
    \* driver.get, with the verdict of the comparison
    navSeen,
    \* extract_characteristics: the position in the function, the page it
    \* reads, and the result dict
    chpc, char_page, char_result,
    \* the batch branch of app.py: the position, the URLs kept, the loop index,
    \* the counters and the error list, the URLs scrape was called with, what
    \* process_single_url returned for each URL, and the session history length
    bpc, valid_urls, idx, successful, failed, errors_list, scrapeCalls, returned, history,
    \* the browser session the batch shares: the position in the current scrape
    \* call, the number of scrape calls started, the driver's performance-log
    \* buffer, the image responses logged while each URL was loaded, and what
    \* the network strategy returned for each URL
    sess_pc, sess_k, perf_log, logged_on, net_images

charVars == <<chpc, char_page, char_result>>
cleanVars == <<raw, cleaned, recleaned, cleanRaised, cpc, charVars>>
imageVars == <<ipc, use_ai, found_images, stratRun, stratOut, stratFailed, imgRaised, recImages>>
locationVars ==
    <<lpc, found_location, ai_location, aiCalled, recLocation, loc_before_ai, oracleCalls>>
scrapeVars ==
    <<spc, driver, req_url, navGets, waitFailures, waitWarnings, page_source, raw_data, firstData,
      reStarted, reDone, calls, raisedBy, record, current_delay, waitDelays, waitExcs, waitRaised,
      navSeen>>
sessionVars == <<sess_pc, sess_k, perf_log, logged_on, net_images>>
batchVars ==
    <<bpc, valid_urls, idx, successful, failed, errors_list, scrapeCalls, returned, history,
      sessionVars>>
vars == <<cleanVars, imageVars, locationVars, scrapeVars, batchVars>>

\* ------------------------------------------------------------------------
\* Python values: None, int, float (in hundredths), float nan, str, and any
\* other object (a list or a dict where a scalar is expected).
\* ------------------------------------------------------------------------
PyNone == [t |-> "none", n |-> 0, s |-> <<>>]
PyInt(i) == [t |-> "int", n |-> i, s |-> <<>>]
PyFloat(c) == [t |-> "float", n |-> c, s |-> <<>>]
PyNaN == [t |-> "nan", n |-> 0, s |-> <<>>]
PyStr(str) == [t |-> "str", n |-> 0, s |-> str]
PyOther == [t |-> "other", n |-> 0, s |-> <<>>]

\* floats are kept in hundredths
FloatScale == 10 * 10

\* bool(v): the truth value Python gives the object
Truthy(v) ==
    CASE v.t = "none" -> FALSE
      [] v.t = "int" -> v.n # 0
      [] v.t = "float" -> v.n # 0
      [] v.t = "str" -> v.s # <<>>
      [] OTHER -> TRUE

DigitToks == <<"0", "1", "2", "3", "4", "5", "6", "7", "8", "9">>
DigitSet == {DigitToks[i] : i \in 1..10}
IsDigit(tok) == tok \in DigitSet
DigitVal(tok) == (CHOOSE i \in 1..10 : DigitToks[i] = tok) - 1
IsSpace(tok) == tok = " "

RECURSIVE NatToStr(_)
NatToStr(k) ==
    IF k < 10 THEN <<DigitToks[k + 1]>>
    ELSE NatToStr(k \div 10) \o <<DigitToks[(k % 10) + 1]>>

Abs(i) == IF i < 0 THEN -i ELSE i

\* str(v) for a value that is not a str
StrOf(v) ==
    CASE v.t = "str" -> v.s
      [] v.t = "int" -> (IF v.n < 0 THEN <<"-">> ELSE <<>>) \o NatToStr(Abs(v.n))
      [] v.t = "float" ->
            LET a == Abs(v.n)
                frac == a % FloatScale
            IN  (IF v.n < 0 THEN <<"-">> ELSE <<>>)
                \o NatToStr(a \div FloatScale) \o <<".">>
                \o (IF frac % 10 = 0 THEN <<DigitToks[(frac \div 10) + 1]>>
                    ELSE <<DigitToks[(frac \div 10) + 1], DigitToks[(frac % 10) + 1]>>)
      [] v.t = "nan" -> <<"nan">>
      [] v.t = "none" -> <<"None">>
      [] OTHER -> <<"[]">>

\* ------------------------------------------------------------------------
\* String helpers
\* ------------------------------------------------------------------------
RECURSIVE LStrip(_)
LStrip(s) == IF s # <<>> /\ IsSpace(Head(s)) THEN LStrip(Tail(s)) ELSE s

RECURSIVE RStrip(_)
RStrip(s) ==
    IF s # <<>> /\ IsSpace(s[Len(s)]) THEN RStrip(SubSeq(s, 1, Len(s) - 1)) ELSE s

\* str.strip()
Strip(s) == RStrip(LStrip(s))

\* str.startswith(p)
StartsWith(s, p) == Len(s) >= Len(p) /\ SubSeq(s, 1, Len(p)) = p

\* p in s (substring test), p a token sequence
Contains(s, p) ==
    \E i \in 0..(Len(s) - Len(p)) : SubSeq(s, i + 1, i + Len(p)) = p

\* s.split('?')[0]
BeforeQuery(s) ==
    IF \E i \in 1..Len(s) : s[i] = "?"
    THEN SubSeq(s, 1, (CHOOSE i \in 1..Len(s) : s[i] = "?" /\ \A j \in 1..(i - 1) : s[j] # "?") - 1)
    ELSE s

\* ' '.join(text.split()): runs of whitespace collapse to one blank, none at the ends
RECURSIVE CollapseSpaces(_)
CollapseSpaces(s) ==
    IF s = <<>> THEN <<>>
    ELSE IF IsSpace(Head(s))
         THEN LET r == LStrip(s) IN IF r = <<>> THEN <<>> ELSE <<" ">> \o CollapseSpaces(r)
         ELSE <<Head(s)>> \o CollapseSpaces(Tail(s))

\* ------------------------------------------------------------------------
\* validators.py
\* ------------------------------------------------------------------------
normalize_text(text) ==
    IF ~Truthy(text) THEN PyNone
    ELSE LET t1 == Strip(CollapseSpaces(LStrip(StrOf(text))))
         IN  IF t1 = <<>> THEN PyNone ELSE PyStr(t1)

\* re.sub(r'\D', '', s)
OnlyDigits(s) == SelectSeq(s, IsDigit)

normalize_zipcode(zipcode) ==
    IF ~Truthy(zipcode) THEN PyNone
    ELSE LET digits == OnlyDigits(StrOf(zipcode))
         IN  IF Len(digits) = 8
             THEN PyStr(SubSeq(digits, 1, 5) \o <<"-">> \o SubSeq(digits, 6, 8))
             ELSE IF Len(digits) = 7
                  THEN PyStr(SubSeq(digits, 1, 4) \o <<"-">> \o SubSeq(digits, 5, 7))
                  ELSE PyNone

RECURSIVE DigitsToNat(_)
DigitsToNat(ds) ==
    IF ds = <<>> THEN 0
    ELSE DigitsToNat(SubSeq(ds, 1, Len(ds) - 1)) * 10 + DigitVal(ds[Len(ds)])

CountTok(s, tok) == Cardinality({i \in 1..Len(s) : s[i] = tok})

\* re.sub(r'[^\d.,]', '', price).replace(',', '.'), all dots dropped when more than one
PriceClean(s) ==
    LET kept == SelectSeq(s, LAMBDA c : IsDigit(c) \/ c = "." \/ c = ",")
        dotted == [i \in 1..Len(kept) |-> IF kept[i] = "," THEN "." ELSE kept[i]]
    IN  IF CountTok(dotted, ".") > 1 THEN SelectSeq(dotted, IsDigit) ELSE dotted

\* float(s) of a string of digits with at most one dot: the ValueError cases
FloatParses(s) == \E i \in 1..Len(s) : IsDigit(s[i])

\* float(s) in hundredths (fraction digits after the second are not represented)
FloatOfStr(s) ==
    LET dot == IF CountTok(s, ".") = 0 THEN Len(s) + 1
               ELSE CHOOSE i \in 1..Len(s) : s[i] = "."
        ip == SubSeq(s, 1, dot - 1)
        fp == SubSeq(s, dot + 1, Len(s))
        f1 == IF Len(fp) >= 1 THEN DigitVal(fp[1]) ELSE 0
        f2 == IF Len(fp) >= 2 THEN DigitVal(fp[2]) ELSE 0
    IN  DigitsToNat(ip) * FloatScale + f1 * 10 + f2

validate_price(price) ==
    CASE price.t = "none" -> PyNone
      [] price.t = "int" -> IF price.n >= 0 THEN PyFloat(price.n * FloatScale) ELSE PyNone
      [] price.t = "float" -> IF price.n >= 0 THEN price ELSE PyNone
      [] price.t = "nan" -> PyNone
      [] price.t = "str" ->
            LET price_clean == PriceClean(price.s)
            IN  IF FloatParses(price_clean) THEN PyFloat(FloatOfStr(price_clean))
                ELSE PyNone
      [] OTHER -> PyNone

\* int(x) of a float: truncation toward zero
IntOfFloat(c) == IF c >= 0 THEN c \div FloatScale ELSE -((-c) \div FloatScale)

\* int(nan) raises ValueError, which validate_int_value does not catch
IntValueRaises(value) == value.t = "nan"

\* validate_int_value without its lower bound
validate_int_value_no_min(value, min_val) ==
    CASE value.t = "none" -> PyNone
      [] value.t \in {"int", "float"} ->
            PyInt(IF value.t = "int" THEN value.n ELSE IntOfFloat(value.n))
      [] value.t = "str" ->
            IF OnlyDigits(value.s) # <<>> THEN PyInt(DigitsToNat(OnlyDigits(value.s)))
            ELSE PyNone
      [] OTHER -> PyNone

validate_int_value(value, min_val) ==
    CASE value.t = "none" -> PyNone
      [] value.t \in {"int", "float"} ->
            LET int_val == IF value.t = "int" THEN value.n ELSE IntOfFloat(value.n)
            IN  IF int_val >= min_val THEN PyInt(int_val) ELSE PyNone
      [] value.t = "str" ->
            LET digits == OnlyDigits(value.s)
            IN  IF digits # <<>> /\ DigitsToNat(digits) >= min_val
                THEN PyInt(DigitsToNat(digits)) ELSE PyNone
      [] OTHER -> PyNone

\* tokens that are a well-formed authority for the url_pattern regex
ValidHosts ==
    {"www.vivareal.com.br", "resizedimgs.vivareal.com", "cdn.example.com",
     "www.google.com", "maps.google.com", "localhost"}
SchemeToks == {"https:", "http:"}
SiteOrigin == <<"https:", "/", "/", "www.vivareal.com.br">>

\* url_pattern.match(url)
UrlPatternMatches(url) ==
    /\ Len(url) >= 4
    /\ url[1] \in SchemeToks /\ url[2] = "/" /\ url[3] = "/"
    /\ url[4] \in ValidHosts
    /\ LET rest == SubSeq(url, 5, Len(url))
       IN  \/ rest = <<>>
           \/ rest = <<"/">>
           \/ /\ Len(rest) >= 2
              /\ rest[1] \in {"/", "?"}
              /\ \A i \in 2..Len(rest) : ~IsSpace(rest[i])

\* a validator that tests the string as given
validate_url_no_strip(url) ==
    IF ~Truthy(url) THEN PyNone
    ELSE LET u == StrOf(url)
         IN  IF UrlPatternMatches(u) THEN PyStr(u)
             ELSE IF StartsWith(u, <<"/", "/">>) THEN PyStr(<<"https:">> \o u)
             ELSE IF StartsWith(u, <<"/">>) THEN PyStr(SiteOrigin \o u)
             ELSE PyNone

validate_url(url) ==
    IF ~Truthy(url) THEN PyNone
    ELSE LET u == Strip(StrOf(url))
         IN  IF UrlPatternMatches(u) THEN PyStr(u)
             ELSE IF StartsWith(u, <<"/", "/">>) THEN PyStr(<<"https:">> \o u)
             ELSE IF StartsWith(u, <<"/">>) THEN PyStr(SiteOrigin \o u)
             ELSE PyNone

LocationKeys == {"city", "neighborhood", "street", "number", "zipcode", "complement", "map_link"}

clean_location(location) ==
    [city |-> normalize_text(location.city),
     neighborhood |-> normalize_text(location.neighborhood),
     street |-> normalize_text(location.street),
     number |-> normalize_text(location.number),
     zipcode |-> normalize_zipcode(location.zipcode),
     complement |-> normalize_text(location.complement),
     map_link |-> validate_url(location.map_link)]

EmptyLocation ==
    [city |-> PyNone, neighborhood |-> PyNone, street |-> PyNone, number |-> PyNone,
     zipcode |-> PyNone, complement |-> PyNone, map_link |-> PyNone]

MaxCleanImages == 15

Take(s, k) == SubSeq(s, 1, IF Len(s) < k THEN Len(s) ELSE k)

\* the images loop of clean_data
clean_images(images) ==
    IF images.isList
    THEN LET validated == [i \in 1..Len(images.items) |-> validate_url(images.items[i])]
         IN  [isList |-> TRUE, items |-> Take(SelectSeq(validated, Truthy), MaxCleanImages)]
    ELSE [isList |-> TRUE, items |-> <<>>]

\* clean_data raises when one of the five validate_int_value calls raises
CleanDataRaises(data) ==
    \/ IntValueRaises(data.size_m2)
    \/ IntValueRaises(data.bedrooms)
    \/ IntValueRaises(data.suites)
    \/ IntValueRaises(data.bathrooms)
    \/ IntValueRaises(data.garage)

clean_data(data) ==
    [url |-> validate_url(data.url),
     scraped_at |-> data.scraped_at,
     property_type |-> normalize_text(data.property_type),
     category |-> IF Truthy(data.category) THEN normalize_text(data.category) ELSE PyNone,
     modality |-> normalize_text(data.modality),
     price |-> validate_price(data.price),
     size_m2 |-> validate_int_value(data.size_m2, 1),
     bedrooms |-> validate_int_value(data.bedrooms, 0),
     suites |-> validate_int_value(data.suites, 0),
     bathrooms |-> validate_int_value(data.bathrooms, 0),
     garage |-> validate_int_value(data.garage, 0),
     location |-> IF data.location.isDict
                  THEN [isDict |-> TRUE, f |-> clean_location(data.location.f)]
                  ELSE [isDict |-> TRUE, f |-> EmptyLocation],
     description |-> normalize_text(data.description),
     advertiser_code |-> normalize_text(data.advertiser_code),
     vivareal_code |-> normalize_text(data.vivareal_code),
     images |-> clean_images(data.images)]

\* ------------------------------------------------------------------------
\* extractors.py: the image strategies
\* ------------------------------------------------------------------------

\* the keywords (of the code's substring tests) that occur inside a token
KeywordsOf(tok) ==
    CASE tok = "resizedimgs.vivareal.com" -> {"resizedimgs.vivareal.com", "vivareal.com"}
      [] tok = "www.vivareal.com.br" -> {"vivareal.com", "vivareal.com.br"}
      [] tok = "vr-listing" -> {"vr-listing"}
      [] tok = "logo.png" -> {"logo"}
      [] tok = "thumbnail.jpg" -> {"thumbnail"}
      [] tok = "corretor.jpg" -> {"corretor"}
      [] tok = "mapa-do-site" -> {"mapa-do-site"}
      [] tok = "sitemap.xml" -> {"sitemap"}
      [] tok = "maps" -> {"maps"}
      [] tok = "www.google.com" -> {"google", "google.com"}
      [] tok = "maps.google.com" -> {"google", "google.com", "maps.google", "maps"}
      [] tok = "lat=a&lng=b" -> {"lat=", "lng="}
      [] tok = "ref=google.com" -> {"google", "google.com"}
      [] OTHER -> {}

\* kw in s, for a keyword that lies inside one token
HasKeyword(s, kw) == \E i \in 1..Len(s) : kw \in KeywordsOf(s[i])

InSeq(x, s) == \E i \in 1..Len(s) : s[i] = x

MaxImages == 15
LogWindow == 200

\* all_logs[-200:]
LastN(s, k) == IF Len(s) > k THEN SubSeq(s, Len(s) - k + 1, Len(s)) ELSE s

NetDenyList ==
    {"logo", "banner", "icon", "avatar", "profile", "corretor", "agent", "mota-fonseca",
     "thumbnail", "placeholder"}
PageDenyList == {"logo", "banner", "icon", "avatar", "profile"}

\* the filter of the network strategy on one response URL
NetAccepts(url) ==
    /\ \/ HasKeyword(url, "resizedimgs.vivareal.com")
       \/ Contains(url, <<"www.vivareal.com.br", "/", "img">>)
    /\ \A kw \in NetDenyList : ~HasKeyword(url, kw)
    /\ HasKeyword(url, "vr-listing")

\* The loop over the log entries.  An entry is an image response ("image"),
\* another message ("other"), a message whose handling raises KeyError,
\* JSONDecodeError or ValueError ("skipped": continue) or one whose handling
\* raises another exception ("fatal": the loop is left through the outer
\* except).  seen_urls holds exactly the entries of images.
RECURSIVE NetLoop(_, _, _)
NetLoop(logs, images, max_images) ==
    IF logs = <<>> THEN [images |-> images, exc |-> FALSE]
    ELSE LET log == Head(logs)
         IN  IF log.kind = "fatal" THEN [images |-> images, exc |-> TRUE]
             ELSE IF log.kind = "image" /\ NetAccepts(log.url) /\ ~InSeq(log.url, images)
                  THEN IF Len(images) + 1 >= max_images
                       THEN [images |-> Append(images, log.url), exc |-> FALSE]
                       ELSE NetLoop(Tail(logs), Append(images, log.url), max_images)
                  ELSE NetLoop(Tail(logs), images, max_images)

\* the entries on which an iteration of the loop does anything: an entry of
\* another method or MIME type, or one skipped by continue, changes nothing
ActsInLoop(log) == log.kind \in {"image", "fatal"}

\* the try body of extract_images_with_network_interception
NetBody(net, max_images) ==
    IF net.scrollFails THEN [images |-> <<>>, exc |-> TRUE]
    ELSE LET logs == IF net.getLogFails THEN <<>> ELSE LastN(net.logs, LogWindow)
         IN  NetLoop(SelectSeq(logs, ActsInLoop), <<>>, max_images)

\* the network strategy without its outer except
extract_images_with_network_interception_no_catch(net, max_images) ==
    LET r == NetBody(net, max_images)
    IN  [images |-> Take(r.images, max_images), failed |-> r.exc, raised |-> r.exc]

extract_images_with_network_interception(net, max_images) ==
    LET r == NetBody(net, max_images)
    IN  [images |-> Take(r.images, max_images), failed |-> r.exc, raised |-> FALSE]

\* src or data-src or data-lazy-src (an attribute that is missing is the empty string)
ImgUrlOf(element) ==
    IF element.src # <<>> THEN element.src
    ELSE IF element.data_src # <<>> THEN element.data_src
    ELSE element.data_lazy_src

PageAccepts(img_url) ==
    /\ HasKeyword(img_url, "vr-listing")
    /\ \A kw \in PageDenyList : ~HasKeyword(img_url, kw)

\* the elements of one selector; failAt = k > 0: reading element k raises,
\* which ends this selector (except Exception: continue)
RECURSIVE PageElements(_, _, _, _, _)
PageElements(elements, k, failAt, images, max_images) ==
    IF k > Len(elements) \/ Len(images) >= max_images \/ k = failAt THEN images
    ELSE LET img_url == ImgUrlOf(elements[k])
         IN  IF img_url # <<>> /\ ~InSeq(img_url, images) /\ PageAccepts(img_url)
             THEN PageElements(elements, k + 1, failAt, Append(images, img_url), max_images)
             ELSE PageElements(elements, k + 1, failAt, images, max_images)

RECURSIVE PageSelectors(_, _, _)
PageSelectors(selectors, images, max_images) ==
    IF selectors = <<>> THEN images
    ELSE PageSelectors(Tail(selectors),
                       IF Head(selectors).findFails THEN images
                       ELSE PageElements(Head(selectors).elements, 1, Head(selectors).failAt,
                                         images, max_images),
                       max_images)

\* the scrolls and the click are each wrapped in their own try; what can
\* leave the try body are the selector loops
extract_images_with_page_interaction(page, max_images) ==
    [images |-> Take(PageSelectors(page.selectors, <<>>, max_images), max_images),
     failed |-> \E k \in 1..Len(page.selectors) :
                    \/ page.selectors[k].findFails
                    \/ page.selectors[k].failAt \in 1..Len(page.selectors[k].elements),
     raised |-> FALSE]

ScriptAccepts(value) == HasKeyword(value, "vivareal.com") /\ HasKeyword(value, "vr-listing")

RECURSIVE AppendNew(_, _)
AppendNew(images, values) ==
    IF values = <<>> THEN images
    ELSE AppendNew(IF InSeq(Head(values), images) THEN images ELSE Append(images, Head(values)),
                   Tail(values))

\* The JSON-LD scripts.  A script parses ("json", with the strings found under
\* image keys), raises JSONDecodeError or AttributeError ("badjson": continue)
\* or raises another exception ("fatal", json.loads(None): outer except).
RECURSIVE JsonLdLoop(_, _)
JsonLdLoop(scripts, images) ==
    IF scripts = <<>> THEN [images |-> images, exc |-> FALSE]
    ELSE LET sc == Head(scripts)
         IN  IF sc.kind = "fatal" THEN [images |-> images, exc |-> TRUE]
             ELSE IF sc.kind = "badjson" THEN JsonLdLoop(Tail(scripts), images)
             ELSE JsonLdLoop(Tail(scripts),
                             AppendNew(images, SelectSeq(sc.values, ScriptAccepts)))

\* the regex matches of one inline script, query string removed
RECURSIVE InlineMatches(_, _, _)
InlineMatches(matches, images, max_images) ==
    IF matches = <<>> THEN images
    ELSE LET clean_url == BeforeQuery(Head(matches))
         IN  IF ~InSeq(clean_url, images)
             THEN IF Len(images) + 1 >= max_images THEN Append(images, clean_url)
                  ELSE InlineMatches(Tail(matches), Append(images, clean_url), max_images)
             ELSE InlineMatches(Tail(matches), images, max_images)

RECURSIVE InlineScripts(_, _, _)
InlineScripts(scripts, images, max_images) ==
    IF scripts = <<>> THEN images
    ELSE InlineScripts(Tail(scripts), InlineMatches(Head(scripts), images, max_images),
                       max_images)

ScriptsBody(scr, max_images) ==
    IF scr.soupFails THEN [images |-> <<>>, exc |-> TRUE]
    ELSE LET j == JsonLdLoop(scr.jsonld, <<>>)
         IN  IF j.exc THEN j
             ELSE [images |-> InlineScripts(scr.inline, j.images, max_images), exc |-> FALSE]

extract_images_from_scripts(scr, max_images) ==
    LET r == ScriptsBody(scr, max_images)
    IN  [images |-> Take(r.images, max_images), failed |-> r.exc, raised |-> FALSE]

\* a merge loop without the seen_urls test
MergeImages_keep_all(images, found) == images \o found

\* the merge loop of extract_images after strategies 1 to 3
MergeImages(images, found) == AppendNew(images, found)

\* a test that lets the next strategy run whatever was found
NeedsMoreImages_always(images) == TRUE

\* if len(images) < 3 (lines 729 and 738)
NeedsMoreImages(images) == Len(images) < 3

\* if len(images) < 1 and use_ai (line 747)
NeedsAiImages(images, ai_enabled) == Len(images) < 1 /\ ai_enabled

\* the merge loop of the AI strategy: it also stops at max_images
RECURSIVE MergeAiImages(_, _, _)
MergeAiImages(images, ai_images, max_images) ==
    IF ai_images = <<>> THEN images
    ELSE MergeAiImages(IF ~InSeq(Head(ai_images), images) /\ Len(images) < max_images
                       THEN Append(images, Head(ai_images)) ELSE images,
                       Tail(ai_images), max_images)

\* ------------------------------------------------------------------------
\* extractors.py: extract_location, and the location adapter of ai_helper.py
\* ------------------------------------------------------------------------

\* str.lower() on one token
Lower(tok) ==
    CASE tok = "Mapa-do-Site" -> "mapa-do-site"
      [] tok = "Maps" -> "maps"
      [] tok = "WWW.Google.com" -> "www.google.com"
      [] OTHER -> tok
LowerStr(s) == [i \in 1..Len(s) |-> Lower(s[i])]

\* len(s) in characters
TokLen(tok) ==
    CASE tok = "SP" -> 2
      [] tok = "São" -> 3
      [] tok = "Luís" -> 4
      [] tok = "Recife" -> 6
      [] tok = "Centro" -> 6
      [] tok = "Rua" -> 3
      [] tok = "Sol" -> 3
      [] tok = "FiftyLetters" -> 50
      [] OTHER -> 1
RECURSIVE StrLen(_)
StrLen(s) == IF s = <<>> THEN 0 ELSE TokLen(Head(s)) + StrLen(Tail(s))

\* 'google.com/maps' in s
HasGoogleComMaps(s) ==
    \E i \in 1..(Len(s) - 2) :
        /\ s[i] \in {"www.google.com", "maps.google.com", "ref=google.com"}
        /\ s[i + 1] = "/"
        /\ s[i + 2] \in {"maps", "maps.google.com"}

\* the test of lines 277 and 317, on the lowered URL
IsSitemapLink(map_url_lower) ==
    HasKeyword(map_url_lower, "mapa-do-site") \/ HasKeyword(map_url_lower, "sitemap")

is_valid_map(map_url_lower) ==
    \/ HasGoogleComMaps(map_url_lower)
    \/ HasKeyword(map_url_lower, "maps.google")
    \/ Contains(map_url_lower, <<"/", "maps", "/">>) /\ HasKeyword(map_url_lower, "google")
    \/ HasKeyword(map_url_lower, "lat=") /\ HasKeyword(map_url_lower, "lng=")

NoLocation ==
    [city |-> PyNone, neighborhood |-> PyNone, street |-> PyNone, number |-> PyNone,
     zipcode |-> PyNone, complement |-> PyNone, map_link |-> PyNone]

\* re.sub(r'[,\.\s-]+$', '', city)
RECURSIVE StripCityTail(_)
StripCityTail(s) ==
    IF s # <<>> /\ s[Len(s)] \in {",", ".", " ", "-"}
    THEN StripCityTail(SubSeq(s, 1, Len(s) - 1)) ELSE s

\* the loop over city_patterns: groups holds group(1) of each pattern that
\* matched, in pattern order; the first one of 3 characters or more wins
RECURSIVE CityFromTitle(_)
CityFromTitle(groups) ==
    IF groups = <<>> THEN PyNone
    ELSE LET city == Strip(StripCityTail(Strip(Head(groups))))
         IN  IF StrLen(city) >= 3 THEN PyStr(city) ELSE CityFromTitle(Tail(groups))

\* step 1: title is [present, groups, address]; address is <<>> when
\* address_match is None, else <<street, number, neighborhood>>
LocationFromTitle(loc, title) ==
    IF ~title.present THEN loc
    ELSE LET c == [loc EXCEPT !.city = CityFromTitle(title.groups)]
         IN  IF title.address = <<>> THEN c
             ELSE [c EXCEPT !.street = PyStr(Strip(title.address[1])),
                            !.number = PyStr(Strip(title.address[2])),
                            !.neighborhood = PyStr(Strip(title.address[3]))]

LetterWords == {"SP", "São", "Luís", "Recife", "Centro", "Rua", "Sol", "FiftyLetters"}

\* re.match(r'^[A-Za-z...\s]+$', text)
LettersOnly(text) == text # <<>> /\ \A i \in 1..Len(text) : text[i] \in LetterWords \/ IsSpace(text[i])

\* step 2: the loop over location_elements; reading element failAt raises
RECURSIVE CityFromElements(_, _, _)
CityFromElements(texts, k, failAt) ==
    IF k > Len(texts) \/ k = failAt THEN PyNone
    ELSE LET text == Strip(texts[k])
         IN  IF text # <<>> /\ StrLen(text) < 50 /\ LettersOnly(text) THEN PyStr(text)
             ELSE CityFromElements(texts, k + 1, failAt)

LocationFromElements(loc, dom) ==
    IF Truthy(loc.city) \/ dom.findFails THEN loc
    ELSE LET c == CityFromElements(dom.texts, 1, dom.failAt)
         IN  IF Truthy(c) THEN [loc EXCEPT !.city = c] ELSE loc

\* href, else data-href, else data-url
MapUrlOf(element) ==
    IF element.href # <<>> THEN element.href
    ELSE IF element.data_href # <<>> THEN element.data_href
    ELSE element.data_url

\* step 3: the elements of one selector; <<>> when none is accepted
RECURSIVE MapElements(_, _, _)
MapElements(elements, k, failAt) ==
    IF k > Len(elements) \/ k = failAt THEN <<>>
    ELSE LET map_url == MapUrlOf(elements[k])
             map_url_lower == LowerStr(map_url)
         IN  IF map_url = <<>> \/ IsSitemapLink(map_url_lower) \/ ~is_valid_map(map_url_lower)
             THEN MapElements(elements, k + 1, failAt)
             ELSE IF StartsWith(map_url, <<"/", "/">>) THEN <<"https:">> \o map_url
             ELSE IF StartsWith(map_url, <<"/">>) THEN MapElements(elements, k + 1, failAt)
             ELSE map_url

RECURSIVE MapSelectors(_)
MapSelectors(selectors) ==
    IF selectors = <<>> THEN <<>>
    ELSE LET found == IF Head(selectors).findFails THEN <<>>
                      ELSE MapElements(Head(selectors).elements, 1, Head(selectors).failAt)
         IN  IF found # <<>> THEN found ELSE MapSelectors(Tail(selectors))

\* step 4: elements with a map text; link is <<>> when find_element raises
RECURSIVE MapTextElements(_)
MapTextElements(elements) ==
    IF elements = <<>> THEN <<>>
    ELSE LET e == Head(elements)
             map_url_lower == LowerStr(e.href)
         IN  IF e.linkFails \/ e.href = <<>> \/ IsSitemapLink(map_url_lower)
                \/ ~(HasGoogleComMaps(map_url_lower) \/ HasKeyword(map_url_lower, "maps.google"))
             THEN MapTextElements(Tail(elements))
             ELSE IF StartsWith(e.href, <<"/", "/">>) THEN <<"https:">> \o e.href
             ELSE e.href

\* ', '.join(parts)
RECURSIVE JoinParts(_)
JoinParts(parts) ==
    IF parts = <<>> THEN <<>>
    ELSE IF Len(parts) = 1 THEN Head(parts)
    ELSE Head(parts) \o <<",", " ">> \o JoinParts(Tail(parts))

\* str.replace(' ', '+')
SpacesToPlus(s) == [i \in 1..Len(s) |-> IF s[i] = " " THEN "+" ELSE s[i]]

\* f"https://www.google.com/maps/search/?api=1&query={...}"
MapsSearchUrl(parts) ==
    <<"https:", "/", "/", "www.google.com", "/", "maps", "/", "search", "/", "?", "api=1&query=">>
    \o SpacesToPlus(JoinParts(parts))

\* the values of the keys that are truthy, in the order of keys
RECURSIVE AddressParts(_, _)
AddressParts(loc, keys) ==
    IF keys = <<>> THEN <<>>
    ELSE (IF Truthy(loc[Head(keys)]) THEN <<loc[Head(keys)]>> ELSE <<>>)
         \o AddressParts(loc, Tail(keys))

AllStr(parts) == \A i \in 1..Len(parts) : parts[i].t = "str"
StrsOf(parts) == [i \in 1..Len(parts) |-> parts[i].s]

AddressKeys == <<"street", "number", "neighborhood", "city">>

\* step 5: the link built from the address when street and city are known
SynthesizeMapLink(loc) ==
    IF ~Truthy(loc.map_link) /\ Truthy(loc.street) /\ Truthy(loc.city)
    THEN LET parts == AddressParts(loc, AddressKeys)
         IN  IF AllStr(parts) THEN [loc EXCEPT !.map_link = PyStr(MapsSearchUrl(StrsOf(parts)))]
             ELSE loc
    ELSE loc

\* ai_helper.extract_location_with_ai: oracle is [ok, d]; ok is FALSE when
\* the key is missing, the call fails or the answer is not a JSON object
extract_location_with_ai(oracle) ==
    IF ~oracle.ok THEN NoLocation
    ELSE LET d == oracle.d
         IN  IF ~Truthy(d.map_link) THEN d
             ELSE IF d.map_link.t # "str" THEN NoLocation
             ELSE IF HasGoogleComMaps(d.map_link.s) THEN d
             ELSE IF Truthy(d.street) /\ Truthy(d.city)
                  THEN LET parts == AddressParts(d, AddressKeys)
                       IN  IF AllStr(parts)
                           THEN [d EXCEPT !.map_link = PyStr(MapsSearchUrl(StrsOf(parts)))]
                           ELSE NoLocation
             ELSE d

\* a condition that always asks for the fallback
LocationIncomplete_always(loc) == TRUE

\* the condition of lines 356-357 without use_ai
LocationIncomplete(loc) ==
    \/ ~Truthy(loc.city)
    \/ loc.city = PyStr(<<"São">>)
    \/ ~Truthy(loc.map_link)
    \/ HasKeyword(loc.map_link.s, "mapa-do-site")

FillAbsent(loc, ai_loc, key) ==
    IF Truthy(ai_loc[key]) /\ ~Truthy(loc[key]) THEN [loc EXCEPT ![key] = ai_loc[key]]
    ELSE loc

\* len(x) raises TypeError for None and for an int
LenRaises(v) == v.t # "str"

\* step 6, lines 366-377; an exception leaves what was assigned before it
merge_ai_location(loc, ai_loc) ==
    IF Truthy(ai_loc.city) /\ (LenRaises(ai_loc.city) \/ LenRaises(loc.city)) THEN loc
    ELSE LET l1 == IF Truthy(ai_loc.city) /\ StrLen(ai_loc.city.s) > StrLen(loc.city.s)
                   THEN [loc EXCEPT !.city = ai_loc.city] ELSE loc
             l2 == FillAbsent(l1, ai_loc, "neighborhood")
             l3 == FillAbsent(l2, ai_loc, "street")
             l4 == FillAbsent(l3, ai_loc, "number")
             l5 == FillAbsent(l4, ai_loc, "zipcode")
         IN  IF Truthy(ai_loc.map_link) /\ ai_loc.map_link.t = "str"
                /\ HasGoogleComMaps(ai_loc.map_link.s)
             THEN [l5 EXCEPT !.map_link = ai_loc.map_link]
             ELSE l5

\* step 7, lines 384-402
FinalMapLink(loc) ==
    IF ~Truthy(loc.map_link) \/ HasKeyword(loc.map_link.s, "mapa-do-site")
    THEN LET usable == IF loc.city = PyStr(<<"São">>) THEN [loc EXCEPT !.city = PyNone] ELSE loc
             parts == AddressParts(usable, AddressKeys)
         IN  IF Len(parts) >= 2 /\ AllStr(parts)
             THEN [loc EXCEPT !.map_link = PyStr(MapsSearchUrl(StrsOf(parts)))]
             ELSE loc
    ELSE loc

\* ------------------------------------------------------------------------
\* extractors.py: extract_characteristics
\* ------------------------------------------------------------------------
CharKeys == {"size_m2", "bedrooms", "bathrooms", "garage"}

\* the result dict of line 108
NoCharacteristics ==
    [size_m2 |-> PyNone, bedrooms |-> PyNone, suites |-> PyNone, bathrooms |-> PyNone,
     garage |-> PyNone]

RECURSIVE FirstMatch(_)
FirstMatch(vals) ==
    IF vals = <<>> THEN PyNone
    ELSE IF Head(vals) # PyNone THEN Head(vals)
    ELSE FirstMatch(Tail(vals))

\* re.search of a key's pattern on soup.get_text(): the first match in the
\* text of the document, which is the text before the title, the title and
\* the text after it
BodyMatch(page, key) ==
    FirstMatch(<<page.before[key], IF page.hasTitle THEN page.title[key] ELSE PyNone,
                 page.after[key]>>)

\* lines 111-138: the four patterns on the title text
CharFromTitle(result, page) ==
    IF ~page.hasTitle THEN result
    ELSE [k \in DOMAIN result |->
            IF k \in CharKeys /\ page.title[k] # PyNone THEN page.title[k] ELSE result[k]]

\* lines 145-157: the loop over the feature elements.  An element is the
\* number its text gives for the garage patterns, PyNone when none matches,
\* PyOther when reading its text raises (except Exception: pass ends the loop).
RECURSIVE GarageFromElements(_, _)
GarageFromElements(garage, elements) ==
    IF elements = <<>> THEN garage
    ELSE IF Head(elements) = PyOther THEN garage
    ELSE GarageFromElements(IF ~Truthy(garage) /\ Head(elements) # PyNone
                            THEN Head(elements) ELSE garage,
                            Tail(elements))

\* lines 141-159
CharFromElements(result, page) ==
    IF page.findFails THEN result
    ELSE [result EXCEPT !.garage = GarageFromElements(@, page.elements)]

\* lines 161-192: if not result[key], the pattern on the text of the document
CharFromBody(result, page) ==
    [k \in DOMAIN result |->
        IF k \in CharKeys /\ ~Truthy(result[k]) /\ BodyMatch(page, k) # PyNone
        THEN BodyMatch(page, k) ELSE result[k]]

\* the whole function; kind is "short" (line 102), "soup fails" (the except
\* of line 193 with nothing set) or "page"
extract_characteristics(page) ==
    IF page.kind # "page" THEN NoCharacteristics
    ELSE CharFromBody(CharFromElements(CharFromTitle(NoCharacteristics, page), page), page)

\* ------------------------------------------------------------------------
\* scraper.py
\* ------------------------------------------------------------------------
MaxRetries == 3
MinMarkupLen == 1000

\* The keys loop of _wait_for_page_load: "found" ends the loop, "timeout"
\* (TimeoutException) goes on to the next selector, "error" (another
\* exception) leaves the function.
RECURSIVE KeySelectorWait(_)
KeySelectorWait(keys) ==
    IF keys = <<>> THEN "none"
    ELSE IF Head(keys) = "found" THEN "found"
    ELSE IF Head(keys) = "error" THEN "error"
    ELSE KeySelectorWait(Tail(keys))

\* one call of the undecorated _wait_for_page_load: only TimeoutException is
\* caught; w is [body, ready, keys]
\* exc names the wait whose exception left the function
wait_for_page_load_body(w) ==
    IF w.body = "timeout" THEN [raised |-> FALSE, warnings |-> 1, exc |-> "none"]
    ELSE IF w.body = "error" THEN [raised |-> TRUE, warnings |-> 0, exc |-> "body"]
    ELSE LET w1 == IF w.ready = "timeout" THEN 1 ELSE 0
             k == KeySelectorWait(w.keys)
         IN  IF w.ready = "error" THEN [raised |-> TRUE, warnings |-> 0, exc |-> "readyState"]
             ELSE IF k = "error" THEN [raised |-> TRUE, warnings |-> w1, exc |-> "key selector"]
             ELSE [raised |-> FALSE, warnings |-> w1 + (IF k = "none" THEN 1 ELSE 0),
                   exc |-> "none"]

\* a wrapper that makes one attempt more
RetryAgain_one_more(attempt, max_retries) == attempt < max_retries + 1

\* retry_on_failure: after a failed attempt, whether another one follows
\* (attempt counts the attempts made, the code's attempt + 1)
RetryAgain(attempt, max_retries) == attempt < max_retries

\* delay=2.0 of the decorator of _wait_for_page_load, in tenths of a second
BaseDelay == 20

\* current_delay *= 1.5
NextDelay(d) == (d * 15) \div 10

\* url.split('?')[0].strip('/')
RECURSIVE StripSlashes(_)
StripSlashes(s) ==
    IF s # <<>> /\ Head(s) = "/" THEN StripSlashes(Tail(s))
    ELSE IF s # <<>> /\ s[Len(s)] = "/" THEN StripSlashes(SubSeq(s, 1, Len(s) - 1))
    ELSE s
NormalizedUrl(u) == StripSlashes(BeforeQuery(u))

\* the negation of the mismatch test of lines 187 and 196
NavigationConfirmed(requested, current) ==
    \/ Contains(NormalizedUrl(current), NormalizedUrl(requested))
    \/ Contains(NormalizedUrl(requested), NormalizedUrl(current))

\* a scrape that never navigates again
NavigateAgain_never(confirmed) == FALSE

\* the if of line 187: the second driver.get is made inside it
NavigateAgain(confirmed) == ~confirmed

\* current_url as read after a driver.get, with the verdict of the comparison
NavCheck(requested, current) ==
    [current |-> current, matched |-> NavigationConfirmed(requested, current)]

\* a weaker test that refuses only the empty markup
MarkupTooShort_empty_only(src) == ~src.present \/ src.len = 0

\* not page_source or len(page_source) < 1000; src is [present, len]
MarkupTooShort(src) == ~src.present \/ src.len = 0 \/ src.len < MinMarkupLen

ExtractorMinLen == 100

\* extract_property_type and extract_price return None at once on such markup
ExtractorSkips(src) == ~src.present \/ src.len = 0 \/ src.len < ExtractorMinLen

\* extracted_count over essential_fields (location is always a dict here)
extracted_count(data) ==
    (IF data.property_type # PyNone THEN 1 ELSE 0)
    + (IF data.price # PyNone THEN 1 ELSE 0)
    + (IF ~data.location.isDict \/ data.location.f.city # PyNone THEN 1 ELSE 0)

\* a wider trigger: any missing essential field starts the pass
NeedsReextraction_any_missing(data) == extracted_count(data) < 3

\* if extracted_count == 0
NeedsReextraction(data) == extracted_count(data) = 0

\* lines 245-250: each essential field is extracted again if it is falsy
ReextractedData(data, property_type, price, loc) ==
    LET d1 == IF ~Truthy(data.property_type) THEN [data EXCEPT !.property_type = property_type] ELSE data
        d2 == IF ~Truthy(d1.price) THEN [d1 EXCEPT !.price = price] ELSE d1
    IN  IF ~Truthy(d2.location.f.city) THEN [d2 EXCEPT !.location = [isDict |-> TRUE, f |-> loc]] ELSE d2

\* ------------------------------------------------------------------------
\* app.py: the batch branch
\* ------------------------------------------------------------------------

\* app.validate_url: 'vivareal.com.br' in url.lower() and '/imovel/' in url.lower()
app_validate_url(u) ==
    /\ u # <<>>
    /\ HasKeyword(LowerStr(u), "vivareal.com.br")
    /\ Contains(LowerStr(u), <<"/", "imovel", "/">>)

\* process_single_url.  out is what the environment does during the call:
\* scrapeRaises (scrape raises) and saveFails (writing the JSON file raises).
\* The record scrape returns carries validate_url(url) as its url.  The
\* result is [data, error, history]; data is FALSE for None.
process_single_url(u, out, historyLen, total) ==
    IF out.scrapeRaises THEN [data |-> FALSE, error |-> "scrape raised", history |-> historyLen]
    ELSE LET rec_url == validate_url(PyStr(u))
         IN  IF ~Truthy(rec_url) \/ rec_url # PyStr(u)
             THEN [data |-> FALSE, error |-> "url mismatch", history |-> historyLen]
             ELSE IF out.saveFails
             THEN [data |-> FALSE, error |-> "save failed", history |-> historyLen]
             ELSE IF total > 0 /\ historyLen + 1 > total
             THEN [data |-> FALSE, error |-> "progress value", history |-> historyLen + 1]
             ELSE [data |-> TRUE, error |-> "none", history |-> historyLen + 1]

\* a loop body that counts the failure but keeps no error entry
count_result_no_entry(c, u, r) ==
    IF r.data THEN [c EXCEPT !.successful = @ + 1]
    ELSE [c EXCEPT !.failed = @ + 1]

\* lines 255-259; c is [successful, failed, errors_list]
count_result(c, u, r) ==
    IF r.data THEN [c EXCEPT !.successful = @ + 1]
    ELSE [c EXCEPT !.failed = @ + 1,
                   !.errors_list = Append(@, [url |-> u, error |-> r.error])]

\* ------------------------------------------------------------------------
\* Inputs of the validator: raw records
\* ------------------------------------------------------------------------
ImgNames ==
    <<"a.jpg", "b.jpg", "c.jpg", "d.jpg", "e.jpg", "f.jpg", "g.jpg", "h.jpg", "i.jpg",
      "j.jpg", "k.jpg", "l.jpg", "m.jpg", "n.jpg", "o.jpg", "p.jpg", "q.jpg", "r.jpg",
      "s.jpg", "t.jpg">>
ImgUrl(i) ==
    <<"https:", "/", "/", "resizedimgs.vivareal.com", "/", "vr-listing", "/", ImgNames[i]>>

UrlInputs ==
    {<<"https:", "/", "/", "www.vivareal.com.br", "/", "imovel", "/", "casa-id">>,
     <<"http:", "/", "/", "localhost">>,
     <<"https:", "/", "/", "www.google.com", "?", "q=a">>,
     <<" ", "https:", "/", "/", "cdn.example.com", "/", " ">>,
     <<"/", "/", "cdn.example.com", "/", "img.jpg">>,
     <<"/", "imovel", "/", "x">>,
     <<" ", "/", "imovel", "/", "x">>,
     <<"/", "a", " ", "b">>,
     <<"/", "/", "bad_host", "/", "x">>,
     <<"https:", "/", "/", "cdn.example.com", "/", "a", " ", "b">>,
     <<"ftp:", "/", "/", "cdn.example.com">>,
     <<"www.vivareal.com.br", "/", "imovel", "/", "x">>}

ZipDigits(k) == [i \in 1..k |-> DigitToks[(i % 10) + 1]]
ZipInputs ==
    {ZipDigits(k) : k \in 0..MaxZipDigits}
    \cup {SubSeq(ZipDigits(k), 1, 5) \o <<"-">> \o SubSeq(ZipDigits(k), 6, k) : k \in 6..MaxZipDigits}
    \cup {<<"CEP:", " ">> \o ZipDigits(k) : k \in 6..MaxZipDigits}
    \cup {<<"0", "1", "3", "1", "0", "1", "0", "0">>, <<"1", "2", "3">>}

NumStrInputs ==
    {<<"3", "5", ".", "0", "0", "0", ",", "0", "0">>,
     <<"R$", " ", "1", ".", "5", "0", "0">>,
     <<"-", "5">>, <<"1", ",", "5">>, <<"0">>, <<"1", "2", " ", "quartos">>,
     <<"abc">>, <<".">>, <<",", ".">>}

TextInputs ==
    {<<"Casa">>, <<" ", "Casa", " ", " ", "Grande", " ">>, <<" ">>, <<>>}

ScalarInputs ==
    {PyNone, PyInt(-1), PyInt(0), PyInt(3), PyInt(1234567), PyFloat(-50), PyFloat(90),
     PyFloat(150), PyNaN, PyOther}
    \cup {PyStr(s) : s \in UrlInputs \cup ZipInputs \cup NumStrInputs \cup TextInputs}

ShortImgLists ==
    UNION {[1..k -> {PyNone, PyInt(3)} \cup {PyStr(s) : s \in UrlInputs}] : k \in 0..MaxImgListLen}
LongImgLists == {[i \in 1..k |-> PyStr(ImgUrl(i))] : k \in 14..MaxLongImgList}
ImagesInputs ==
    {[isList |-> FALSE, items |-> <<>>]}
    \cup {[isList |-> TRUE, items |-> l] : l \in ShortImgLists \cup LongImgLists}

ScalarFields ==
    {"url", "scraped_at", "property_type", "category", "modality", "price", "size_m2",
     "bedrooms", "suites", "bathrooms", "garage", "description", "advertiser_code",
     "vivareal_code"}

NumericFields == {"price", "size_m2", "bedrooms", "suites", "bathrooms", "garage"}

\* the numeric fields take the values whose digits fit the model's integers
NumericInputs == {v \in ScalarInputs : Len(OnlyDigits(v.s)) <= MaxNumDigits}

\* a record with every field absent, location missing and images not a list
AbsentRecord ==
    [url |-> PyNone, scraped_at |-> PyNone, property_type |-> PyNone, category |-> PyNone,
     modality |-> PyNone, price |-> PyNone, size_m2 |-> PyNone, bedrooms |-> PyNone,
     suites |-> PyNone, bathrooms |-> PyNone, garage |-> PyNone,
     location |-> [isDict |-> FALSE, f |-> EmptyLocation],
     description |-> PyNone, advertiser_code |-> PyNone, vivareal_code |-> PyNone,
     images |-> [isList |-> FALSE, items |-> <<>>]]

\* a record as scrape assembles it from a page where every extractor succeeded
FullRecord ==
    [url |-> PyStr(<<"https:", "/", "/", "www.vivareal.com.br", "/", "imovel", "/", "casa-id">>),
     scraped_at |-> PyStr(<<"T", "Z">>),
     property_type |-> PyStr(<<"Casa">>), category |-> PyNone,
     modality |-> PyStr(<<"Venda">>), price |-> PyFloat(35000000),
     size_m2 |-> PyInt(80), bedrooms |-> PyInt(3), suites |-> PyNone,
     bathrooms |-> PyInt(2), garage |-> PyInt(0),
     location |-> [isDict |-> TRUE,
                   f |-> [EmptyLocation EXCEPT !.city = PyStr(<<"Rio">>),
                                               !.street = PyStr(<<"Rua", " ", "A">>)]],
     description |-> PyStr(<<"Casa", " ", "Grande">>),
     advertiser_code |-> PyStr(<<"MF">>), vivareal_code |-> PyStr(<<"1", "2">>),
     images |-> [isList |-> TRUE, items |-> <<PyStr(ImgUrl(1))>>]]

\* the raw records fed to clean_data: a base record with one field replaced
RawInputs ==
    LET bases == {AbsentRecord, FullRecord}
    IN  bases
        \cup {[b EXCEPT ![fld] = v] : b \in bases, fld \in ScalarFields \ NumericFields,
                                        v \in ScalarInputs}
        \cup {[b EXCEPT ![fld] = v] : b \in bases, fld \in NumericFields, v \in NumericInputs}
        \cup {[b EXCEPT !.location = [isDict |-> TRUE, f |-> [EmptyLocation EXCEPT ![k] = v]]] :
                b \in bases, k \in LocationKeys, v \in ScalarInputs}
        \cup {[b EXCEPT !.images = im] : b \in bases, im \in ImagesInputs}

\* ------------------------------------------------------------------------
\* The validator applied to a raw record, then to its own output
\* ------------------------------------------------------------------------
CharValues(s, b, ba, g) == [size_m2 |-> s, bedrooms |-> b, bathrooms |-> ba, garage |-> g]
NoMatches == CharValues(PyNone, PyNone, PyNone, PyNone)
NoCharPage ==
    [kind |-> "short", hasTitle |-> FALSE, title |-> NoMatches, before |-> NoMatches,
     after |-> NoMatches, findFails |-> FALSE, elements |-> <<>>]

CharIdle ==
    /\ chpc = "idle"
    /\ char_page = NoCharPage
    /\ char_result = NoCharacteristics

CleanIdle ==
    /\ raw = AbsentRecord
    /\ cleaned = AbsentRecord
    /\ recleaned = AbsentRecord
    /\ cleanRaised = FALSE
    /\ cpc = "idle"
    /\ CharIdle

NoStratOut == [k \in 1..4 |-> <<>>]

ImagesIdle ==
    /\ ipc = "idle"
    /\ found_images = <<>>
    /\ stratRun = <<>>
    /\ stratOut = NoStratOut
    /\ stratFailed = {}
    /\ imgRaised = FALSE
    /\ recImages = <<>>

SessionIdle ==
    /\ sess_pc = "idle"
    /\ sess_k = 0
    /\ perf_log = <<>>
    /\ logged_on = <<>>
    /\ net_images = <<>>

BatchIdle ==
    /\ SessionIdle
    /\ bpc = "idle"
    /\ valid_urls = <<>>
    /\ idx = 0
    /\ successful = 0
    /\ failed = 0
    /\ errors_list = <<>>
    /\ scrapeCalls = <<>>
    /\ returned = <<>>
    /\ history = 0

NoMarkup == [present |-> FALSE, len |-> 0]

ScrapeIdle ==
    /\ spc = "idle"
    /\ driver = "chrome"
    /\ req_url = <<>>
    /\ navGets = 0
    /\ navSeen = <<>>
    /\ waitFailures = 0
    /\ current_delay = BaseDelay
    /\ waitDelays = <<>>
    /\ waitExcs = <<>>
    /\ waitRaised = "none"
    /\ waitWarnings = 0
    /\ page_source = NoMarkup
    /\ raw_data = AbsentRecord
    /\ firstData = AbsentRecord
    /\ reStarted = 0
    /\ reDone = 0
    /\ calls = <<>>
    /\ raisedBy = "nothing"
    /\ record = AbsentRecord

LocationIdle ==
    /\ lpc = "idle"
    /\ found_location = NoLocation
    /\ ai_location = NoLocation
    /\ aiCalled = FALSE
    /\ recLocation = NoLocation
    /\ loc_before_ai = NoLocation
    /\ oracleCalls = 0

InitClean ==
    /\ raw \in RawInputs
    /\ cleaned = AbsentRecord
    /\ recleaned = AbsentRecord
    /\ cleanRaised = FALSE
    /\ cpc = "raw"
    /\ CharIdle
    /\ use_ai = TRUE
    /\ ImagesIdle
    /\ LocationIdle
    /\ ScrapeIdle
    /\ BatchIdle

\* cleaned = clean_data(raw)
CleanOnce ==
    /\ cpc = "raw"
    /\ cleanRaised' = CleanDataRaises(raw)
    /\ cleaned' = IF CleanDataRaises(raw) THEN cleaned ELSE clean_data(raw)
    /\ cpc' = "cleaned"
    /\ UNCHANGED <<raw, recleaned, charVars, imageVars, locationVars, scrapeVars, batchVars>>

\* recleaned = clean_data(cleaned)
CleanAgain ==
    /\ cpc = "cleaned"
    /\ ~cleanRaised
    /\ ~CleanDataRaises(cleaned)
    /\ recleaned' = clean_data(cleaned)
    /\ cpc' = "recleaned"
    /\ UNCHANGED <<raw, cleaned, cleanRaised, charVars, imageVars, locationVars, scrapeVars,
                   batchVars>>

NextClean == CleanOnce \/ CleanAgain

SpecClean == InitClean /\ [][NextClean]_vars

\* ------------------------------------------------------------------------
\* extract_images, strategy by strategy, followed by the images loop of
\* clean_data
\* ------------------------------------------------------------------------
WithQuery(url, q) == url \o <<"?", q>>
ImgOn(host, name) == <<"https:", "/", "/", host, "/", "vr-listing", "/", name>>
ImgFamily(k) == [i \in 1..k |-> ImgUrl(i)]

LogImage(url) == [kind |-> "image", url |-> url]
NetEntrySamples ==
    {LogImage(ImgUrl(1)), LogImage(WithQuery(ImgUrl(1), "w=small")), LogImage(ImgUrl(2)),
     LogImage(ImgOn("resizedimgs.vivareal.com", "logo.png")),
     [kind |-> "skipped", url |-> <<>>], [kind |-> "fatal", url |-> <<>>]}
NetLogLists ==
    UNION {[1..k -> NetEntrySamples] : k \in 0..MaxNetLog}
    \cup {[i \in 1..k |-> LogImage(ImgUrl(i))] : k \in {3} \cup (16..MaxLongImgList)}
NetInputs ==
    {[scrollFails |-> TRUE, getLogFails |-> FALSE, logs |-> <<>>],
     [scrollFails |-> FALSE, getLogFails |-> TRUE, logs |-> <<>>]}
    \cup {[scrollFails |-> FALSE, getLogFails |-> FALSE, logs |-> l] : l \in NetLogLists}

ImgElement(src) == [src |-> src, data_src |-> <<>>, data_lazy_src |-> <<>>]
LazyElement(url) == [src |-> <<>>, data_src |-> <<>>, data_lazy_src |-> url]
NumImageSelectors == 5
EmptySelector == [findFails |-> FALSE, elements |-> <<>>, failAt |-> 0]
SelectorSamples ==
    {[findFails |-> TRUE, elements |-> <<>>, failAt |-> 0],
     [findFails |-> FALSE, failAt |-> 0,
      elements |-> <<ImgElement(WithQuery(ImgUrl(1), "w=big")), ImgElement(ImgUrl(3))>>],
     [findFails |-> FALSE, failAt |-> 2,
      elements |-> <<ImgElement(ImgUrl(3)), ImgElement(ImgUrl(4))>>],
     [findFails |-> FALSE, failAt |-> 0,
      elements |-> <<LazyElement(<<"/", "/", "resizedimgs.vivareal.com", "/", "vr-listing", "/", "a.jpg">>),
                     ImgElement(ImgOn("cdn.example.com", "thumbnail.jpg")),
                     ImgElement(ImgOn("cdn.example.com", "logo.png"))>>]}
    \cup {[findFails |-> FALSE, failAt |-> 0,
           elements |-> [i \in 1..k |-> ImgElement(ImgUrl(i))]] : k \in 16..MaxLongImgList}
PageInputs ==
    {[selectors |-> [k \in 1..NumImageSelectors |->
                        IF k = i THEN a ELSE IF k = j THEN b ELSE EmptySelector]] :
        i \in 1..NumImageSelectors, j \in 1..NumImageSelectors,
        a \in SelectorSamples, b \in SelectorSamples}

JsonLdSamples ==
    {[kind |-> "json", values |-> <<WithQuery(ImgUrl(1), "w=small"), ImgOn("cdn.example.com", "x.jpg")>>],
     [kind |-> "badjson", values |-> <<>>],
     [kind |-> "fatal", values |-> <<>>]}
InlineSamples ==
    {<<ImgUrl(1), WithQuery(ImgUrl(1), "fmt=x.webp"), ImgUrl(5)>>}
    \cup {ImgFamily(k) : k \in 15..MaxLongImgList}
ScriptInputs ==
    {[soupFails |-> TRUE, jsonld |-> <<>>, inline |-> <<>>]}
    \cup {[soupFails |-> FALSE, jsonld |-> j, inline |-> s] :
            j \in UNION {[1..k -> JsonLdSamples] : k \in 0..MaxJsonLd},
            s \in UNION {[1..k -> InlineSamples] : k \in 0..MaxInlineScripts}}

\* extract_images_with_ai returns at most 15 strings, or the call raises
AiImageInputs ==
    {[raises |-> TRUE, ai_images |-> <<>>]}
    \cup {[raises |-> FALSE, ai_images |-> l] :
            l \in {<<>>, <<ImgUrl(1), ImgUrl(1)>>,
                   <<WithQuery(ImgUrl(1), "w=small"), ImgUrl(6)>>, ImgFamily(15)}}

InitImages ==
    /\ CleanIdle
    /\ ipc = "network"
    /\ use_ai \in BOOLEAN
    /\ found_images = <<>>
    /\ stratRun = <<>>
    /\ stratOut = NoStratOut
    /\ stratFailed = {}
    /\ imgRaised = FALSE
    /\ recImages = <<>>
    /\ LocationIdle
    /\ ScrapeIdle
    /\ BatchIdle

\* one strategy was called and its result merged
StrategyDone(k, r, merged, next) ==
    /\ stratRun' = Append(stratRun, k)
    /\ stratOut' = [stratOut EXCEPT ![k] = r.images]
    /\ stratFailed' = IF r.failed THEN stratFailed \cup {k} ELSE stratFailed
    /\ imgRaised' = r.raised
    /\ found_images' = IF r.raised THEN found_images ELSE merged
    /\ ipc' = IF r.raised THEN "raised" ELSE next

StrategySkipped(next) ==
    /\ ipc' = next
    /\ UNCHANGED <<found_images, stratRun, stratOut, stratFailed, imgRaised>>

\* strategy 1: always called
RunNetwork ==
    /\ ipc = "network"
    /\ \E net \in NetInputs :
        LET r == extract_images_with_network_interception(net, MaxImages)
        IN  StrategyDone(1, r, MergeImages(found_images, r.images), "interaction")
    /\ UNCHANGED <<cleanVars, locationVars, scrapeVars, batchVars, use_ai, recImages>>

\* strategy 2: if len(images) < 3
RunInteraction ==
    /\ ipc = "interaction"
    /\ IF NeedsMoreImages(found_images)
       THEN \E page \in PageInputs :
                LET r == extract_images_with_page_interaction(page, MaxImages)
                IN  StrategyDone(2, r, MergeImages(found_images, r.images), "scripts")
       ELSE StrategySkipped("scripts")
    /\ UNCHANGED <<cleanVars, locationVars, scrapeVars, batchVars, use_ai, recImages>>

\* strategy 3: if len(images) < 3
RunScripts ==
    /\ ipc = "scripts"
    /\ IF NeedsMoreImages(found_images)
       THEN \E scr \in ScriptInputs :
                LET r == extract_images_from_scripts(scr, MaxImages)
                IN  StrategyDone(3, r, MergeImages(found_images, r.images), "ai")
       ELSE StrategySkipped("ai")
    /\ UNCHANGED <<cleanVars, locationVars, scrapeVars, batchVars, use_ai, recImages>>

\* strategy 4: if len(images) < 1 and use_ai, inside its own try
RunAI ==
    /\ ipc = "ai"
    /\ IF NeedsAiImages(found_images, use_ai)
       THEN \E ai \in AiImageInputs :
                LET r == [images |-> ai.ai_images, failed |-> ai.raises, raised |-> FALSE]
                IN  StrategyDone(4, r, MergeAiImages(found_images, ai.ai_images, MaxImages), "return")
       ELSE StrategySkipped("return")
    /\ UNCHANGED <<cleanVars, locationVars, scrapeVars, batchVars, use_ai, recImages>>

\* return images[:max_images]
ReturnImages ==
    /\ ipc = "return"
    /\ found_images' = Take(found_images, MaxImages)
    /\ ipc' = "returned"
    /\ UNCHANGED <<cleanVars, locationVars, scrapeVars, batchVars, use_ai, stratRun, stratOut, stratFailed, imgRaised, recImages>>

\* the images of the record after clean_data
CleanImages ==
    /\ ipc = "returned"
    /\ recImages' = clean_images([isList |-> TRUE,
                                  items |-> [i \in 1..Len(found_images) |-> PyStr(found_images[i])]]).items
    /\ ipc' = "cleaned"
    /\ UNCHANGED <<cleanVars, locationVars, scrapeVars, batchVars, use_ai, found_images, stratRun, stratOut, stratFailed, imgRaised>>

NextImages ==
    RunNetwork \/ RunInteraction \/ RunScripts \/ RunAI \/ ReturnImages \/ CleanImages

SpecImages == InitImages /\ [][NextImages]_vars

\* ------------------------------------------------------------------------
\* extract_location, step by step, followed by clean_location
\* ------------------------------------------------------------------------
SaoLuis == <<"São", " ", "Luís">>
RuaSol == <<"Rua", " ", "Sol">>

TitleGroupInputs == {<<>>, <<<<"Recife">>>>, <<<<"SP">>, SaoLuis \o <<" ", "-">>>>, <<<<"São">>>>}
TitleAddressInputs == {<<>>, <<RuaSol, <<"1", "2">>, <<"Centro">>>>}
TitleInputs ==
    {[present |-> FALSE, groups |-> <<>>, address |-> <<>>]}
    \cup {[present |-> TRUE, groups |-> g, address |-> a] :
            g \in TitleGroupInputs, a \in TitleAddressInputs}

CityDomInputs ==
    {[findFails |-> TRUE, texts |-> <<>>, failAt |-> 0],
     [findFails |-> FALSE, texts |-> <<>>, failAt |-> 0]}
    \cup {[findFails |-> FALSE, texts |-> <<<<"FiftyLetters">>, <<"Rua", " ", "1">>, <<" ", "Recife", " ">>>>,
           failAt |-> f] : f \in {0, 2}}

GoogleMapsLink == <<"https:", "/", "/", "www.google.com", "/", "maps", "/", "place", "/", "x">>
SitemapLink == <<"https:", "/", "/", "www.vivareal.com.br", "/", "mapa-do-site", "/">>
UpperSitemapLink == <<"https:", "/", "/", "www.vivareal.com.br", "/", "Mapa-do-Site", "/">>
SitemapXmlLink == <<"https:", "/", "/", "www.vivareal.com.br", "/", "sitemap.xml">>
CoordinatesLink == <<"https:", "/", "/", "cdn.example.com", "/", "store", "?", "lat=a&lng=b">>
ShareLink == <<"https:", "/", "/", "cdn.example.com", "/", "share", "?", "ref=google.com", "/", "maps">>
SitemapShareLink ==
    <<"https:", "/", "/", "www.vivareal.com.br", "/", "mapa-do-site", "/", "?", "ref=google.com", "/", "maps">>
RelativeMapLink == <<"/", "maps", "/", "www.google.com", "/", "x">>
SchemeRelativeMapLink == <<"/", "/", "maps.google.com", "/", "?", "q=x">>
PlainLink == <<"https:", "/", "/", "www.vivareal.com.br", "/", "location", "/", "x">>

Anchor(href) == [href |-> href, data_href |-> <<>>, data_url |-> <<>>]
DataAnchor(url) == [href |-> <<>>, data_href |-> <<>>, data_url |-> url]

NumMapSelectors == 13
EmptyMapSelector == [findFails |-> FALSE, elements |-> <<>>, failAt |-> 0]
MapSelectorSamples ==
    {[findFails |-> TRUE, elements |-> <<>>, failAt |-> 0],
     [findFails |-> FALSE, elements |-> <<Anchor(GoogleMapsLink)>>, failAt |-> 1],
     [findFails |-> FALSE, elements |-> <<Anchor(SitemapLink), Anchor(PlainLink), Anchor(GoogleMapsLink)>>,
      failAt |-> 0],
     [findFails |-> FALSE, elements |-> <<Anchor(UpperSitemapLink), Anchor(SitemapXmlLink)>>, failAt |-> 0],
     [findFails |-> FALSE, elements |-> <<Anchor(CoordinatesLink)>>, failAt |-> 0],
     [findFails |-> FALSE, elements |-> <<Anchor(ShareLink)>>, failAt |-> 0],
     [findFails |-> FALSE, elements |-> <<Anchor(RelativeMapLink), DataAnchor(SchemeRelativeMapLink)>>,
      failAt |-> 0]}
MapSelectorInputs ==
    {[k \in 1..NumMapSelectors |-> IF k = i THEN a ELSE IF k = j THEN b ELSE EmptyMapSelector] :
        i \in 1..NumMapSelectors, j \in 1..NumMapSelectors,
        a \in MapSelectorSamples, b \in MapSelectorSamples}

TextLink(href) == [linkFails |-> FALSE, href |-> href]
MapTextInputs ==
    {[findFails |-> TRUE, elements |-> <<>>],
     [findFails |-> FALSE, elements |-> <<>>],
     [findFails |-> FALSE,
      elements |-> <<[linkFails |-> TRUE, href |-> <<>>], TextLink(SitemapLink), TextLink(CoordinatesLink),
                     TextLink(SchemeRelativeMapLink)>>],
     [findFails |-> FALSE, elements |-> <<TextLink(<<"/", "x", "?", "ref=google.com", "/", "maps">>)>>]}

\* what the oracle answers: a JSON object with these keys, or nothing usable
OracleInputs ==
    {[ok |-> FALSE, raises |-> r, d |-> NoLocation] : r \in BOOLEAN}
    \cup {[ok |-> TRUE, raises |-> FALSE,
           d |-> [NoLocation EXCEPT !.city = c, !.street = s, !.number = n, !.map_link = l]] :
            c \in {PyNone, PyStr(SaoLuis), PyStr(<<"SP">>)},
            s \in {PyNone, PyStr(RuaSol)},
            n \in {PyNone, PyInt(12)},
            l \in {PyNone, PyStr(GoogleMapsLink), PyStr(SitemapShareLink), PyStr(ShareLink),
                   PyStr(PlainLink), PyInt(7)}}

InitLocation ==
    /\ CleanIdle
    /\ ImagesIdle
    /\ use_ai \in BOOLEAN
    /\ lpc = "title"
    /\ found_location = NoLocation
    /\ ai_location = NoLocation
    /\ aiCalled = FALSE
    /\ recLocation = NoLocation
    /\ loc_before_ai = NoLocation
    /\ oracleCalls = 0
    /\ ScrapeIdle
    /\ BatchIdle

LocationStep(loc, next) ==
    /\ found_location' = loc
    /\ lpc' = next
    /\ UNCHANGED <<cleanVars, imageVars, scrapeVars, batchVars, ai_location, aiCalled, recLocation,
                   loc_before_ai, oracleCalls>>

\* step 1: BeautifulSoup and the title; an error here leaves the outer try
ReadTitle ==
    /\ lpc = "title"
    /\ \/ LocationStep(found_location, "returned")
       \/ \E title \in TitleInputs : LocationStep(LocationFromTitle(found_location, title), "elements")

\* step 2: the city from page elements, if the title gave none
ReadCityElements ==
    /\ lpc = "elements"
    /\ \E dom \in CityDomInputs : LocationStep(LocationFromElements(found_location, dom), "maplinks")

\* step 3: the map selectors
ReadMapSelectors ==
    /\ lpc = "maplinks"
    /\ \E selectors \in MapSelectorInputs :
        LET found == MapSelectors(selectors)
        IN  LocationStep(IF found # <<>> THEN [found_location EXCEPT !.map_link = PyStr(found)]
                         ELSE found_location, "maptext")

\* step 4: elements with a map text, if no link was found
ReadMapText ==
    /\ lpc = "maptext"
    /\ IF ~Truthy(found_location.map_link)
       THEN \E maptext \in MapTextInputs :
                LET found == IF maptext.findFails THEN <<>> ELSE MapTextElements(maptext.elements)
                IN  LocationStep(IF found # <<>> THEN [found_location EXCEPT !.map_link = PyStr(found)]
                                 ELSE found_location, "synthesize")
       ELSE LocationStep(found_location, "synthesize")

\* step 5
Synthesize ==
    /\ lpc = "synthesize"
    /\ LocationStep(SynthesizeMapLink(found_location), "ai")

\* step 6: the AI fallback and its merge
AskAI ==
    /\ lpc = "ai"
    /\ IF LocationIncomplete(found_location) /\ use_ai
       THEN \E oracle \in OracleInputs :
                LET ai == extract_location_with_ai(oracle)
                IN  /\ aiCalled' = TRUE
                    /\ oracleCalls' = oracleCalls + 1
                    /\ ai_location' = IF oracle.raises THEN NoLocation ELSE ai
                    /\ found_location' = IF oracle.raises THEN found_location
                                         ELSE merge_ai_location(found_location, ai)
       ELSE UNCHANGED <<aiCalled, oracleCalls, ai_location, found_location>>
    /\ loc_before_ai' = found_location
    /\ lpc' = "final"
    /\ UNCHANGED <<cleanVars, imageVars, scrapeVars, batchVars, recLocation>>

\* step 7
FinalFallback ==
    /\ lpc = "final"
    /\ LocationStep(FinalMapLink(found_location), "returned")

\* clean_data on the location of the record
CleanLocation ==
    /\ lpc = "returned"
    /\ recLocation' = clean_location(found_location)
    /\ lpc' = "cleaned"
    /\ UNCHANGED <<cleanVars, imageVars, scrapeVars, batchVars, found_location, ai_location, aiCalled,
                   loc_before_ai, oracleCalls>>

NextLocation ==
    \/ ReadTitle \/ ReadCityElements \/ ReadMapSelectors \/ ReadMapText
    \/ Synthesize \/ AskAI \/ FinalFallback \/ CleanLocation

SpecLocation == InitLocation /\ [][NextLocation]_vars

\* ------------------------------------------------------------------------
\* VivaRealScraper.scrape, step by step
\* ------------------------------------------------------------------------
ListingUrl(name) == <<"https:", "/", "/", "www.vivareal.com.br", "/", "imovel", "/", name>>
ScrapeUrls ==
    {ListingUrl("a"), ListingUrl("a") \o <<"/", "?", "x=1">>,
     \* a blank inside the path, and blanks around the URL
     ListingUrl("casa") \o <<" ", "nova">>,
     <<" ">> \o ListingUrl("a") \o <<" ">>}
CurrentUrls ==
    {ListingUrl("a"), ListingUrl("a") \o <<"/">>, ListingUrl("b"),
     <<"https:", "/", "/", "www.vivareal.com.br", "/">>}

\* driver.get raising, else the URL the browser shows after it
NavOutcomes == {[getRaises |-> TRUE, current |-> <<>>]}
               \cup {[getRaises |-> FALSE, current |-> c] : c \in CurrentUrls}

WaitResults == {"ok", "timeout", "error"}
WaitInputs ==
    {[body |-> b, ready |-> "ok", keys |-> <<>>] : b \in {"timeout", "error"}}
    \cup {[body |-> "ok", ready |-> r, keys |-> k] :
            r \in WaitResults,
            k \in {<<"found">>, <<"timeout", "found">>, <<"timeout", "error">>,
                   <<"timeout", "timeout", "timeout", "timeout", "timeout">>}}

\* driver.page_source: None, '', a short page, pages at and above the limit
PageSources ==
    {NoMarkup} \cup {[present |-> TRUE, len |-> n] : n \in {0, ExtractorMinLen - 1, MinMarkupLen - 1, MinMarkupLen, 5 * MinMarkupLen}}

\* what the extractors return for the essential fields
PropertyTypeResults == {PyNone, PyStr(<<"Casa">>)}
PriceResults == {PyNone, PyFloat(0), PyFloat(35000000)}
LocationResults ==
    {NoLocation, [NoLocation EXCEPT !.map_link = PyStr(GoogleMapsLink)],
     [NoLocation EXCEPT !.city = PyStr(<<"Recife">>), !.street = PyStr(RuaSol)]}

\* the data dict of lines 212-230 (the other fields as on an ordinary page)
ExtractedData(u, property_type, price, loc) ==
    [FullRecord EXCEPT !.url = PyStr(u), !.property_type = property_type, !.price = price,
                       !.location = [isDict |-> TRUE, f |-> loc]]

InitScrape ==
    /\ CleanIdle
    /\ use_ai = TRUE
    /\ ImagesIdle
    /\ LocationIdle
    /\ spc = "start"
    /\ driver \in {"none", "chrome"}
    /\ req_url \in ScrapeUrls
    /\ navGets = 0
    /\ navSeen = <<>>
    /\ waitFailures = 0
    /\ current_delay = BaseDelay
    /\ waitDelays = <<>>
    /\ waitExcs = <<>>
    /\ waitRaised = "none"
    /\ waitWarnings = 0
    /\ page_source = NoMarkup
    /\ raw_data = AbsentRecord
    /\ firstData = AbsentRecord
    /\ reStarted = 0
    /\ reDone = 0
    /\ calls = <<>>
    /\ raisedBy = "nothing"
    /\ record = AbsentRecord
    /\ BatchIdle

\* an exception reaches the except clause of scrape, which logs and re-raises
ScrapeRaises(where) ==
    /\ spc' = "raised"
    /\ raisedBy' = where

\* line 171: if not self.driver: raise RuntimeError
CheckDriver ==
    /\ spc = "start"
    /\ IF driver = "none" THEN ScrapeRaises("driver")
       ELSE spc' = "clean_state" /\ UNCHANGED raisedBy
    /\ UNCHANGED <<cleanVars, imageVars, locationVars, batchVars, driver, req_url, navGets, navSeen,
                   waitFailures, current_delay, waitDelays, waitExcs, waitRaised,
                   waitWarnings, page_source, raw_data, firstData, reStarted, reDone, calls, record>>

\* _clean_driver_state: every error in it is caught
CleanDriverState ==
    /\ spc = "clean_state"
    /\ calls' = Append(calls, "driver.delete_all_cookies")
    /\ spc' = "navigate"
    /\ UNCHANGED <<cleanVars, imageVars, locationVars, batchVars, driver, req_url, navGets, navSeen,
                   waitFailures, current_delay, waitDelays, waitExcs, waitRaised,
                   waitWarnings, page_source, raw_data, firstData, reStarted, reDone, raisedBy, record>>

\* lines 181-203: driver.get, the comparison with current_url, a second get
Navigate ==
    /\ spc = "navigate"
    /\ \E first \in NavOutcomes, second \in NavOutcomes :
        IF first.getRaises
        THEN /\ navGets' = 1
             /\ navSeen' = <<>>
             /\ calls' = Append(calls, "driver.get")
             /\ ScrapeRaises("get")
        ELSE IF ~NavigateAgain(NavCheck(req_url, first.current).matched)
        THEN /\ navGets' = 1
             /\ navSeen' = <<NavCheck(req_url, first.current)>>
             /\ calls' = Append(calls, "driver.get")
             /\ spc' = "wait" /\ UNCHANGED raisedBy
        ELSE /\ navGets' = 2
             /\ calls' = calls \o <<"driver.get", "driver.get">>
             /\ IF second.getRaises
                THEN /\ navSeen' = <<NavCheck(req_url, first.current)>>
                     /\ ScrapeRaises("get")
                ELSE /\ navSeen' = <<NavCheck(req_url, first.current),
                                     NavCheck(req_url, second.current)>>
                     /\ spc' = "wait" /\ UNCHANGED raisedBy
    /\ UNCHANGED <<cleanVars, imageVars, locationVars, batchVars, driver, req_url, waitFailures,
                   current_delay, waitDelays, waitExcs, waitRaised, waitWarnings, page_source,
                   raw_data, firstData, reStarted, reDone, record>>

\* a scrape that goes on to the markup without the page-load wait
WaitForPageLoad_not_awaited ==
    /\ spc = "wait"
    /\ spc' = "markup"
    /\ UNCHANGED <<cleanVars, imageVars, locationVars, batchVars, driver, req_url, navGets, navSeen,
                   waitFailures, current_delay, waitDelays, waitExcs, waitRaised,
                   waitWarnings, page_source, raw_data, firstData, reStarted, reDone, calls,
                   raisedBy, record>>

\* one attempt of the decorated _wait_for_page_load
WaitForPageLoad ==
    /\ spc = "wait"
    /\ \E w \in WaitInputs :
        LET r == wait_for_page_load_body(w)
        IN  /\ calls' = Append(calls, "wait")
            /\ waitWarnings' = waitWarnings + r.warnings
            /\ IF r.raised
               THEN /\ waitFailures' = waitFailures + 1
                    /\ waitExcs' = Append(waitExcs, r.exc)
                    /\ IF RetryAgain(waitFailures + 1, MaxRetries)
                       THEN /\ waitDelays' = Append(waitDelays, current_delay)
                            /\ current_delay' = NextDelay(current_delay)
                            /\ UNCHANGED <<spc, raisedBy, waitRaised>>
                       ELSE /\ waitRaised' = r.exc
                            /\ ScrapeRaises("wait")
                            /\ UNCHANGED <<waitDelays, current_delay>>
               ELSE /\ UNCHANGED <<waitFailures, raisedBy, current_delay, waitDelays, waitExcs,
                                   waitRaised>>
                    /\ spc' = "markup"
    /\ UNCHANGED <<cleanVars, imageVars, locationVars, batchVars, driver, req_url, navGets, navSeen,
                   page_source, raw_data, firstData, reStarted, reDone, record>>

\* lines 208-210
ReadMarkup ==
    /\ spc = "markup"
    /\ calls' = Append(calls, "driver.page_source")
    /\ \/ /\ ScrapeRaises("page_source")
          /\ UNCHANGED page_source
       \/ \E src \in PageSources :
            /\ page_source' = src
            /\ IF MarkupTooShort(src) THEN ScrapeRaises("markup")
               ELSE spc' = "extract" /\ UNCHANGED raisedBy
    /\ UNCHANGED <<cleanVars, imageVars, locationVars, batchVars, driver, req_url, navGets, navSeen,
                   waitFailures, current_delay, waitDelays, waitExcs, waitRaised,
                   waitWarnings, raw_data, firstData, reStarted, reDone, record>>

\* lines 212-237: the first extraction and the count of essential fields
Extract ==
    /\ spc = "extract"
    /\ \E property_type \in PropertyTypeResults, price \in PriceResults, loc \in LocationResults :
        LET d == ExtractedData(req_url, property_type, price, loc)
        IN  /\ raw_data' = d
            /\ firstData' = d
            /\ spc' = IF NeedsReextraction(d) THEN "reextract" ELSE "clean"
    /\ calls' = Append(calls, "extract")
    /\ UNCHANGED <<cleanVars, imageVars, locationVars, batchVars, driver, req_url, navGets, navSeen,
                   waitFailures, current_delay, waitDelays, waitExcs, waitRaised,
                   waitWarnings, page_source, reStarted, reDone, raisedBy, record>>

\* lines 239-260: the markup is read again and the missing essential fields
\* are extracted again
ReExtract ==
    /\ spc = "reextract"
    /\ reStarted' = reStarted + 1
    /\ \/ /\ calls' = calls \o <<"reextract", "driver.page_source">>
          /\ ScrapeRaises("page_source")
          /\ UNCHANGED <<page_source, raw_data, reDone>>
       \/ \E src \in PageSources, property_type \in PropertyTypeResults,
             price \in PriceResults, loc \in LocationResults :
            /\ calls' = calls \o <<"reextract", "driver.page_source", "extract">>
            /\ page_source' = src
            /\ raw_data' = IF ExtractorSkips(src)
                           THEN ReextractedData(raw_data, PyNone, PyNone, loc)
                           ELSE ReextractedData(raw_data, property_type, price, loc)
            /\ reDone' = reDone + 1
            /\ spc' = "clean"
            /\ UNCHANGED raisedBy
    /\ UNCHANGED <<cleanVars, imageVars, locationVars, batchVars, driver, req_url, navGets, navSeen,
                   waitFailures, current_delay, waitDelays, waitExcs, waitRaised,
                   waitWarnings, firstData, record>>

\* line 262
CleanData ==
    /\ spc = "clean"
    /\ calls' = Append(calls, "clean_data")
    /\ IF CleanDataRaises(raw_data)
       THEN ScrapeRaises("clean_data") /\ UNCHANGED record
       ELSE /\ record' = clean_data(raw_data)
            /\ spc' = "returned"
            /\ UNCHANGED raisedBy
    /\ UNCHANGED <<cleanVars, imageVars, locationVars, batchVars, driver, req_url, navGets, navSeen,
                   waitFailures, current_delay, waitDelays, waitExcs, waitRaised,
                   waitWarnings, page_source, raw_data, firstData, reStarted, reDone>>

NextScrape ==
    \/ CheckDriver \/ CleanDriverState \/ Navigate \/ WaitForPageLoad \/ ReadMarkup
    \/ Extract \/ ReExtract \/ CleanData

SpecScrape == InitScrape /\ [][NextScrape]_vars

\* The page-ready wait by itself: scrape has reached line 206 after one
\* driver.get, and the decorated _wait_for_page_load runs until it returns or
\* raises.  It runs in one thread and every wait in it has a timeout, so an
\* attempt that can be made is made.
InitWait ==
    /\ CleanIdle
    /\ use_ai = TRUE
    /\ ImagesIdle
    /\ LocationIdle
    /\ spc = "wait"
    /\ driver = "chrome"
    /\ req_url \in ScrapeUrls
    /\ navGets = 1
    /\ navSeen \in {<<[current |-> c, matched |-> TRUE]>> :
                       c \in {x \in CurrentUrls : NavigationConfirmed(req_url, x)}}
    /\ waitFailures = 0
    /\ current_delay = BaseDelay
    /\ waitDelays = <<>>
    /\ waitExcs = <<>>
    /\ waitRaised = "none"
    /\ waitWarnings = 0
    /\ page_source = NoMarkup
    /\ raw_data = AbsentRecord
    /\ firstData = AbsentRecord
    /\ reStarted = 0
    /\ reDone = 0
    /\ calls = <<"driver.delete_all_cookies", "driver.get">>
    /\ raisedBy = "nothing"
    /\ record = AbsentRecord
    /\ BatchIdle

NextWait == WaitForPageLoad

SpecWait == InitWait /\ [][NextWait]_vars /\ WF_vars(WaitForPageLoad)

\* ------------------------------------------------------------------------
\* The batch loop
\* ------------------------------------------------------------------------
BatchUrlSamples ==
    {ListingUrl("a"), ListingUrl("b"),
     <<"www.vivareal.com.br", "/", "imovel", "/", "a">>,
     <<"https:", "/", "/", "cdn.example.com", "/", "imovel", "/", "a">>}

BatchOutcomes == [scrapeRaises : BOOLEAN, saveFails : BOOLEAN]

\* the lines of the text area, of which the valid ones are kept (line 229);
\* the history holds what earlier runs of the session appended
InitBatch ==
    /\ CleanIdle
    /\ use_ai = TRUE
    /\ ImagesIdle
    /\ LocationIdle
    /\ ScrapeIdle
    /\ SessionIdle
    /\ bpc = "loop"
    /\ \E urls \in UNION {[1..k -> BatchUrlSamples] : k \in 1..MaxBatch} :
          /\ valid_urls = SelectSeq(urls, app_validate_url)
          /\ valid_urls # <<>>
    /\ idx = 0
    /\ successful = 0
    /\ failed = 0
    /\ errors_list = <<>>
    /\ scrapeCalls = <<>>
    /\ returned = <<>>
    /\ history \in 0..MaxHistory

\* one iteration of the for loop (lines 253-259)
ProcessUrl ==
    /\ bpc = "loop"
    /\ idx < Len(valid_urls)
    /\ \E out \in BatchOutcomes :
        LET u == valid_urls[idx + 1]
            r == process_single_url(u, out, history, Len(valid_urls))
            c == count_result([successful |-> successful, failed |-> failed,
                               errors_list |-> errors_list], u, r)
        IN  /\ scrapeCalls' = Append(scrapeCalls, u)
            /\ returned' = Append(returned, r.data)
            /\ history' = r.history
            /\ successful' = c.successful
            /\ failed' = c.failed
            /\ errors_list' = c.errors_list
    /\ idx' = idx + 1
    /\ UNCHANGED <<cleanVars, imageVars, locationVars, scrapeVars, sessionVars, bpc, valid_urls>>

\* the loop is over: progress_bar.progress(1.0)
FinishBatch ==
    /\ bpc = "loop"
    /\ idx = Len(valid_urls)
    /\ bpc' = "done"
    /\ UNCHANGED <<cleanVars, imageVars, locationVars, scrapeVars, sessionVars, valid_urls, idx,
                   successful, failed, errors_list, scrapeCalls, returned, history>>

NextBatch == ProcessUrl \/ FinishBatch

SpecBatch == InitBatch /\ [][NextBatch]_vars

\* ------------------------------------------------------------------------
\* One browser session serving successive scrape calls: what reaches the
\* driver's performance log and what the network strategy reads from it.
\* The driver appends an entry for every network event of the page it shows;
\* get_log('performance') returns the entries not yet returned and empties
\* the buffer.
\* ------------------------------------------------------------------------
OtherEntry == [kind |-> "other", url |-> <<>>]

\* the image of the k-th listing, and one it loads late (after a scroll or click)
ListingImage(k) == ImgUrl(k)
LateImage(k) == ImgUrl(k + MaxBatch + 1)

\* what the page of the k-th URL logs while it loads: nothing, its image,
\* or its image followed by a full window of other events
PageLogSamples(k) ==
    {<<>>, <<LogImage(ListingImage(k))>>, <<OtherEntry, LogImage(ListingImage(k))>>,
     [i \in 1..LogWindow |-> IF i = 1 THEN LogImage(ListingImage(k)) ELSE OtherEntry]}

LatePageLogSamples(k) == {<<>>, <<LogImage(LateImage(k))>>}

\* the URLs of the image responses among the entries
LoggedImages(entries) == {entries[i].url : i \in {n \in 1..Len(entries) : entries[n].kind = "image"}}

InitSession ==
    /\ CleanIdle
    /\ use_ai = TRUE
    /\ ImagesIdle
    /\ LocationIdle
    /\ ScrapeIdle
    /\ bpc = "idle"
    /\ valid_urls = <<>>
    /\ idx = 0
    /\ successful = 0
    /\ failed = 0
    /\ errors_list = <<>>
    /\ scrapeCalls = <<>>
    /\ returned = <<>>
    /\ history = 0
    /\ sess_pc = "clean_state"
    /\ sess_k = 0
    /\ perf_log = <<>>
    /\ logged_on = <<>>
    /\ net_images = <<>>

SessionOthersUnchanged ==
    UNCHANGED <<cleanVars, imageVars, locationVars, scrapeVars, bpc, valid_urls, idx, successful,
                failed, errors_list, scrapeCalls, returned, history>>

\* scrape is called for the next URL; _clean_driver_state deletes the cookies,
\* clears both storages and the browser cache and disables the Performance
\* and Network domains: none of these calls reads or empties the log buffer
SessionCleanState ==
    /\ sess_pc = "clean_state"
    /\ sess_k < MaxBatch
    /\ sess_k' = sess_k + 1
    /\ sess_pc' = "navigate"
    /\ UNCHANGED <<perf_log, logged_on, net_images>>
    /\ SessionOthersUnchanged

\* lines 181-210: driver.get, _wait_for_page_load (which enables the Network
\* domain) and the markup check; the page's events reach the buffer, and an
\* exception here ends the call before any extractor runs
SessionLoadPage ==
    /\ sess_pc = "navigate"
    /\ \E entries \in PageLogSamples(sess_k), aborts \in BOOLEAN :
        /\ perf_log' = perf_log \o entries
        /\ logged_on' = Append(logged_on, LoggedImages(entries))
        /\ IF aborts
           THEN /\ net_images' = Append(net_images, <<>>)
                /\ sess_pc' = "clean_state"
           ELSE /\ UNCHANGED net_images
                /\ sess_pc' = "images"
    /\ UNCHANGED sess_k
    /\ SessionOthersUnchanged

\* extract_images calls the network strategy, which reads the log unless a
\* scroll raised before
SessionNetworkStrategy ==
    /\ sess_pc = "images"
    /\ \E scrollFails \in BOOLEAN, getLogFails \in BOOLEAN :
        LET net == [scrollFails |-> scrollFails, getLogFails |-> getLogFails, logs |-> perf_log]
            r == extract_images_with_network_interception(net, MaxImages)
        IN  /\ net_images' = Append(net_images, r.images)
            /\ perf_log' = IF scrollFails \/ getLogFails THEN perf_log ELSE <<>>
    /\ sess_pc' = "rest"
    /\ UNCHANGED <<sess_k, logged_on>>
    /\ SessionOthersUnchanged

\* the rest of the call: the page stays open, and the scrolls and clicks of
\* the later strategies make it load more
SessionFinishScrape ==
    /\ sess_pc = "rest"
    /\ \E late \in LatePageLogSamples(sess_k) :
        /\ perf_log' = perf_log \o late
        /\ logged_on' = [logged_on EXCEPT ![sess_k] = @ \cup LoggedImages(late)]
    /\ sess_pc' = "clean_state"
    /\ UNCHANGED <<sess_k, net_images>>
    /\ SessionOthersUnchanged

NextSession ==
    SessionCleanState \/ SessionLoadPage \/ SessionNetworkStrategy \/ SessionFinishScrape

SpecSession == InitSession /\ [][NextSession]_vars

\* ------------------------------------------------------------------------
\* extract_characteristics, source by source
\* ------------------------------------------------------------------------
TitleMatches ==
    {CharValues(s, b, ba, g) : s \in {PyNone, PyInt(0), PyInt(70)}, b \in {PyNone, PyInt(3)},
                               ba \in {PyNone, PyInt(0)}, g \in {PyNone, PyInt(0), PyInt(2)}}
\* text that stands before the title in the document
BeforeMatches == {NoMatches, CharValues(PyInt(55), PyNone, PyNone, PyInt(4))}
AfterMatches ==
    {CharValues(s, b, ba, g) : s \in {PyNone, PyInt(80)}, b \in {PyNone, PyInt(4)},
                               ba \in {PyNone, PyInt(1)}, g \in {PyNone, PyInt(1)}}
FeatureElements ==
    {<<>>, <<PyInt(3)>>, <<PyInt(0), PyInt(3)>>, <<PyNone, PyOther, PyInt(3)>>}
CharPages ==
    {NoCharPage, [NoCharPage EXCEPT !.kind = "soup fails"]}
    \cup {[kind |-> "page", hasTitle |-> TRUE, title |-> ti, before |-> be, after |-> af,
           findFails |-> FALSE, elements |-> el] :
            ti \in TitleMatches, be \in BeforeMatches, af \in AfterMatches,
            el \in FeatureElements}
    \cup {[kind |-> "page", hasTitle |-> h, title |-> NoMatches, before |-> NoMatches,
           after |-> af, findFails |-> TRUE, elements |-> <<>>] :
            h \in BOOLEAN, af \in AfterMatches}

InitCharacteristics ==
    /\ raw = AbsentRecord
    /\ cleaned = AbsentRecord
    /\ recleaned = AbsentRecord
    /\ cleanRaised = FALSE
    /\ cpc = "idle"
    /\ chpc = "title"
    /\ char_page \in CharPages
    /\ char_result = NoCharacteristics
    /\ use_ai = TRUE
    /\ ImagesIdle
    /\ LocationIdle
    /\ ScrapeIdle
    /\ BatchIdle

CharOthersUnchanged ==
    UNCHANGED <<raw, cleaned, recleaned, cleanRaised, cpc, char_page, imageVars, locationVars,
                scrapeVars, batchVars>>

\* lines 102-138: the early return, the parse and the title
CharTitle ==
    /\ chpc = "title"
    /\ IF char_page.kind # "page"
       THEN chpc' = "returned" /\ UNCHANGED char_result
       ELSE /\ char_result' = CharFromTitle(char_result, char_page)
            /\ chpc' = "elements"
    /\ CharOthersUnchanged

\* lines 141-159: the feature elements
CharElements ==
    /\ chpc = "elements"
    /\ char_result' = CharFromElements(char_result, char_page)
    /\ chpc' = "body"
    /\ CharOthersUnchanged

\* lines 161-196: the text of the document, and the return
CharBody ==
    /\ chpc = "body"
    /\ char_result' = CharFromBody(char_result, char_page)
    /\ chpc' = "returned"
    /\ CharOthersUnchanged

NextCharacteristics == CharTitle \/ CharElements \/ CharBody

SpecCharacteristics == InitCharacteristics /\ [][NextCharacteristics]_vars

\* ------------------------------------------------------------------------
\* Properties of the validator
\* ------------------------------------------------------------------------

\* C1: clean_data is idempotent: cleaning an already cleaned record gives the
\* same record, field by field (url, location.map_link, location.zipcode and
\* every entry of images included).
C1_CleanIdempotent == cpc = "recleaned" => recleaned = cleaned

\* five digits, a hyphen, three digits
ZipShape(s) ==
    /\ Len(s) = 9
    /\ s[6] = "-"
    /\ \A i \in (1..9) \ {6} : IsDigit(s[i])

\* C3: normalize_zipcode returns DDDDD-DDD (the input's digits in order) when
\* the input holds exactly 8 digits and absent for every other input.
C3_ZipEightDigitsOrAbsent ==
    (cpc # "raw" /\ ~cleanRaised /\ raw.location.isDict) =>
        LET zin == raw.location.f.zipcode
            zout == cleaned.location.f.zipcode
            d == OnlyDigits(StrOf(zin))
        IN  IF Truthy(zin) /\ Len(d) = 8
            THEN zout.t = "str" /\ ZipShape(zout.s) /\ OnlyDigits(zout.s) = d
            ELSE zout = PyNone

NonNegFloatOrAbsent(v) == v = PyNone \/ (v.t = "float" /\ v.n >= 0)
IntAtLeastOrAbsent(v, m) == v = PyNone \/ (v.t = "int" /\ v.n >= m)
\* a value no number can be read from
Unparsable(v) == v.t = "other" \/ (v.t = "str" /\ OnlyDigits(v.s) = <<>>)

PaddedCdnUrl == <<" ", "https:", "/", "/", "cdn.example.com", "/", " ">>

\* C14, as stated: validate_url returns the input unchanged when it is an
\* absolute http(s) URL that matches the pattern, 'https:' + input when the
\* input starts with '//', the site origin + input when it starts with a
\* single '/', and absent for every other input.
C14_ValidateUrlAsStated ==
    (cpc # "raw" /\ ~cleanRaised) =>
        LET v == raw.url
        IN  cleaned.url =
                IF v.t = "str" /\ UrlPatternMatches(v.s) THEN v
                ELSE IF v.t = "str" /\ StartsWith(v.s, <<"/", "/">>) THEN PyStr(<<"https:">> \o v.s)
                ELSE IF v.t = "str" /\ StartsWith(v.s, <<"/">>) THEN PyStr(SiteOrigin \o v.s)
                ELSE PyNone

\* C14, amended: the cases are decided on the input with its surrounding
\* whitespace stripped (a non-string by its string form), and the stripped
\* string is what is returned or repaired; a falsy input gives absent.
C14_ValidateUrlCases ==
    (cpc # "raw" /\ ~cleanRaised) =>
        LET v == raw.url
            u == Strip(StrOf(v))
        IN  cleaned.url =
                IF ~Truthy(v) THEN PyNone
                ELSE IF UrlPatternMatches(u) THEN PyStr(u)
                ELSE IF StartsWith(u, <<"/", "/">>) THEN PyStr(<<"https:">> \o u)
                ELSE IF StartsWith(u, <<"/">>) THEN PyStr(SiteOrigin \o u)
                ELSE PyNone

\* a URL given with blanks around it came back without them
C14_Witness ==
    /\ cpc = "cleaned" /\ ~cleanRaised
    /\ raw.url = PyStr(PaddedCdnUrl)
    /\ cleaned.url = PyStr(<<"https:", "/", "/", "cdn.example.com", "/">>)

\* C15: every entry of images in a cleaned record is itself an absolute
\* http(s) URL that validate_url accepts without repair.
C15_ImagesPassValidation ==
    (cpc # "raw" /\ ~cleanRaised) =>
        \A i \in 1..Len(cleaned.images.items) :
            /\ cleaned.images.items[i].t = "str"
            /\ UrlPatternMatches(cleaned.images.items[i].s)

\* C16: clean_data never rejects a whole record: for every raw record it
\* returns a record with the fixed keys, a location with its seven keys and a
\* list of images, and a malformed value only makes its own field absent.
C16_CleanNeverRejects ==
    cpc # "raw" =>
        /\ ~cleanRaised
        /\ DOMAIN cleaned = DOMAIN AbsentRecord
        /\ cleaned.location.isDict /\ DOMAIN cleaned.location.f = LocationKeys
        /\ cleaned.images.isList

\* ------------------------------------------------------------------------
\* Properties of extract_images
\* ------------------------------------------------------------------------

\* C2: the images of a Record (extract_images followed by the images loop of
\* clean_data) are at most 15 and no two of them are equal once their query
\* string is stripped, whichever strategies contributed them.
C2_ImagesBoundedDistinct ==
    ipc = "cleaned" =>
        /\ Len(recImages) <= 15
        /\ \A i \in 1..Len(recImages) : \A j \in 1..Len(recImages) :
              i # j => BeforeQuery(recImages[i].s) # BeforeQuery(recImages[j].s)

\* C8: extract_images never propagates an error: whichever strategies fail,
\* and wherever, control reaches the return statement with a list.
C8_ExtractImagesNeverRaises ==
    /\ imgRaised = FALSE
    /\ ipc # "raised"
    /\ ipc \in {"returned", "cleaned"} =>
          \A i \in 1..Len(found_images) : \E k \in 1..4 : InSeq(found_images[i], stratOut[k])

\* all four strategies were called, each one failed, and the function returned
C8_Witness ==
    /\ ipc = "returned"
    /\ stratRun = <<1, 2, 3, 4>>
    /\ stratFailed = {1, 2, 3, 4}

\* the entries of s that equal no earlier entry, in the order of s
RECURSIVE FirstOccurrencesFrom(_, _)
FirstOccurrencesFrom(s, i) ==
    IF i > Len(s) THEN <<>>
    ELSE (IF \A j \in 1..(i - 1) : s[j] # s[i] THEN <<s[i]>> ELSE <<>>)
         \o FirstOccurrencesFrom(s, i + 1)
FirstOccurrences(s) == FirstOccurrencesFrom(s, 1)

\* C13: extract_images returns the outputs of the strategies it consulted,
\* concatenated in strategy order, with every later exact duplicate removed
\* (first occurrence kept, relative order preserved), cut to max_images.
C13_MergeKeepsFirstOccurrences ==
    ipc \in {"returned", "cleaned"} =>
        found_images =
            Take(FirstOccurrences(stratOut[1] \o stratOut[2] \o stratOut[3] \o stratOut[4]),
                 MaxImages)

\* strategies 1 and 2 were consulted and returned a common URL, which the
\* result holds once, after the other result of strategy 1
C13_Witness ==
    /\ ipc = "returned"
    /\ stratRun = <<1, 2>>
    /\ Len(stratOut[1]) = 2
    /\ InSeq(stratOut[1][2], stratOut[2])
    /\ Len(found_images) >= 3
    /\ Len(found_images) < Len(stratOut[1]) + Len(stratOut[2])

\* C20: extract_images consults the strategies in the order 1, 2, 3, 4: page
\* interaction runs exactly when fewer than 3 images were accumulated after
\* network interception, script mining exactly when fewer than 3 were
\* accumulated after that, and the AI oracle exactly when none was
\* accumulated and use_ai is true.
C20_StrategiesInOrderByThreshold ==
    LET acc1 == FirstOccurrences(stratOut[1])
        acc2 == FirstOccurrences(stratOut[1] \o stratOut[2])
        acc3 == FirstOccurrences(stratOut[1] \o stratOut[2] \o stratOut[3])
    IN  /\ \A i \in 1..Len(stratRun) : \A j \in 1..Len(stratRun) :
              i < j => stratRun[i] < stratRun[j]
        /\ ipc # "network" => InSeq(1, stratRun)
        /\ ipc \notin {"network", "interaction"} => (InSeq(2, stratRun) <=> Len(acc1) < 3)
        /\ ipc \notin {"network", "interaction", "scripts"} =>
              (InSeq(3, stratRun) <=> Len(acc2) < 3)
        /\ ipc \in {"return", "returned", "cleaned"} =>
              (InSeq(4, stratRun) <=> (Len(acc3) = 0 /\ use_ai))

\* three strategies ran, one or two images were found, and the AI oracle was
\* not asked although it was enabled
C20_Witness ==
    /\ ipc = "returned"
    /\ use_ai
    /\ stratRun = <<1, 2, 3>>
    /\ Len(found_images) \in {1, 2}

\* C21: a strategy (network interception, page interaction, scripts) that
\* raised inside its run hands nothing to the merge of extract_images: its
\* result is empty, so no URL it collected before the failure is in the output.
C21_FailedStrategyContributesNothing ==
    \A k \in stratFailed \cap {1, 2, 3} : stratOut[k] = <<>>

\* the keywords the images of a listing must not hold
StatedDenyList ==
    {"logo", "banner", "icon", "avatar", "profile", "corretor", "agent", "thumbnail",
     "placeholder"}

\* C26: no URL returned by extract_images holds a deny-listed keyword: what
\* the page-interaction strategy returns passes the domain and deny-list
\* filter of the network strategy, and so does the merged result.
C26_NoDenyListedImage ==
    /\ \A i \in 1..Len(stratOut[2]) : NetAccepts(stratOut[2][i])
    /\ ipc = "returned" =>
          \A i \in 1..Len(found_images) :
              /\ \A kw \in StatedDenyList : ~HasKeyword(found_images[i], kw)
              /\ NetAccepts(found_images[i])

\* ------------------------------------------------------------------------
\* Properties of extract_location
\* ------------------------------------------------------------------------

\* a URL of the map service: Google Maps on www.google.com/maps or maps.google.com
IsMapServiceUrl(u) ==
    /\ Len(u) >= 4
    /\ u[1] \in SchemeToks /\ u[2] = "/" /\ u[3] = "/"
    /\ \/ Lower(u[4]) = "maps.google.com"
       \/ Lower(u[4]) = "www.google.com" /\ Len(u) >= 6 /\ u[5] = "/" /\ Lower(u[6]) = "maps"

\* C4: the map_link of a Record is absent or a map-service URL (the
\* synthesized map-search URL included); it is never a sitemap link nor a link
\* to another site, whatever anchors the page and the AI oracle supply.
C4_MapLinkIsMapService ==
    lpc = "cleaned" =>
        \/ recLocation.map_link = PyNone
        \/ /\ recLocation.map_link.t = "str"
           /\ IsMapServiceUrl(recLocation.map_link.s)
           /\ ~IsSitemapLink(LowerStr(recLocation.map_link.s))

FilledByOracle == {"neighborhood", "street", "number", "zipcode"}

\* C17: when the steps before the AI merge left city absent and the oracle
\* returns a non-empty city, the location's city is the oracle's city, and the
\* oracle's neighborhood, street, number and zipcode fill each of these
\* fields that was absent.
C17_OracleFillsAbsentFields ==
    (lpc = "final" /\ oracleCalls = 1 /\ loc_before_ai.city = PyNone /\ Truthy(ai_location.city)) =>
        /\ found_location.city = ai_location.city
        /\ \A key \in FilledByOracle :
              (loc_before_ai[key] = PyNone /\ Truthy(ai_location[key])) =>
                  found_location[key] = ai_location[key]

\* C18: in the AI merge a neighborhood, street, number, zipcode or map_link
\* that had a value before the oracle was consulted keeps it; only city may be
\* replaced, and only by a strictly longer string.
C18_OracleKeepsExistingFields ==
    (lpc = "final" /\ oracleCalls = 1) =>
        /\ \A key \in FilledByOracle \cup {"map_link"} :
              loc_before_ai[key] # PyNone => found_location[key] = loc_before_ai[key]
        /\ found_location.city # loc_before_ai.city =>
              /\ found_location.city = ai_location.city
              /\ found_location.city.t = "str" /\ loc_before_ai.city.t = "str"
              /\ StrLen(found_location.city.s) > StrLen(loc_before_ai.city.s)

\* the claim's condition for consulting the oracle, on the location dict
OracleWanted(d) ==
    \/ d.city = PyNone
    \/ d.city = PyStr(<<"São">>)
    \/ d.map_link = PyNone
    \/ HasKeyword(d.map_link.s, "mapa-do-site")

\* C19: extract_location calls the location oracle at most once, and only
\* when use_ai is true and city is absent or 'São' or map_link is absent or
\* holds 'mapa-do-site'; with use_ai false, or with a complete city and a
\* map link, it is never called.
C19_OracleOnlyWhenWanted ==
    /\ oracleCalls <= 1
    /\ aiCalled <=> oracleCalls = 1
    /\ oracleCalls = 1 => use_ai /\ OracleWanted(loc_before_ai)
    /\ (lpc \in {"final", "returned", "cleaned"} /\ (~use_ai \/ ~OracleWanted(loc_before_ai))) =>
          oracleCalls = 0

\* the page gave a full city and a map link, AI was enabled, and the oracle
\* was not called
C19_Witness ==
    /\ lpc = "final"
    /\ use_ai
    /\ loc_before_ai.city = PyStr(<<"Recife">>)
    /\ loc_before_ai.map_link = PyStr(GoogleMapsLink)
    /\ oracleCalls = 0

\* a URL built by the synthesis of step 5 or of the final fallback
IsSynthesizedLink(u) ==
    /\ Len(u) > Len(MapsSearchUrl(<<>>))
    /\ SubSeq(u, 1, Len(MapsSearchUrl(<<>>))) = MapsSearchUrl(<<>>)

\* the last part of the query, the city, is the truncated 'São'
QueryEndsInTruncatedCity(u) ==
    /\ u[Len(u)] = "São"
    /\ Len(u) = Len(MapsSearchUrl(<<>>)) + 1 \/ SubSeq(u, Len(u) - 2, Len(u) - 1) = <<",", "+">>

\* C28: no map_link that extract_location synthesizes has the truncated city
\* value 'São' as the city of its query, whether it was built at step 5 or by
\* the final fallback, with the oracle enabled or not.
C28_NoTruncatedCityInMapLink ==
    (/\ lpc \in {"returned", "cleaned"}
     /\ found_location.map_link.t = "str"
     /\ IsSynthesizedLink(found_location.map_link.s)) =>
        ~QueryEndsInTruncatedCity(found_location.map_link.s)

\* ------------------------------------------------------------------------
\* Properties of scrape
\* ------------------------------------------------------------------------

\* property_type, price and location.city are all None
EssentialsAbsent(d) ==
    d.property_type = PyNone /\ d.price = PyNone /\ d.location.f.city = PyNone

CalledBefore(a, b) ==
    \A i \in 1..Len(calls) : \A j \in 1..Len(calls) : (calls[i] = a /\ calls[j] = b) => i < j

\* C6: in one scrape call the re-extraction pass runs exactly once when
\* property_type, price and location.city are all absent after the first
\* extraction, never when one of them is present, and it has completed when
\* clean_data is invoked.
C6_ReextractionOnceBeforeClean ==
    /\ reStarted <= 1 /\ reDone <= reStarted
    /\ (InSeq("extract", calls) /\ ~EssentialsAbsent(firstData)) => reStarted = 0
    /\ (InSeq("extract", calls) /\ EssentialsAbsent(firstData) /\ spc # "reextract") => reStarted = 1
    /\ InSeq("clean_data", calls) =>
          /\ reDone = reStarted
          /\ CalledBefore("reextract", "clean_data")

\* the pass ran, found the price, and the record was returned
C6_Witness ==
    /\ spc = "returned"
    /\ EssentialsAbsent(firstData)
    /\ reDone = 1
    /\ raw_data.price # PyNone
    /\ calls[Len(calls)] = "clean_data"

\* C7: scrape raises and returns no record when the driver is not initialized,
\* before any driver call, and when the markup read after the wait is absent,
\* empty or shorter than 1000 characters, before any extractor or clean_data
\* is called.
C7_FatalConditionsRaiseEarly ==
    /\ (driver = "none" /\ spc # "start") =>
          /\ spc = "raised" /\ raisedBy = "driver"
          /\ calls = <<>>
          /\ record = AbsentRecord
    /\ (spc \notin {"start", "clean_state", "navigate", "wait", "markup"}
        /\ driver # "none" /\ raisedBy \notin {"get", "wait", "page_source"}
        /\ reStarted = 0
        /\ (~page_source.present \/ page_source.len < 1000)) =>
          /\ spc = "raised" /\ raisedBy = "markup"
          /\ ~InSeq("extract", calls) /\ ~InSeq("clean_data", calls)
          /\ record = AbsentRecord

\* a page of 999 characters was read and scrape raised
C7_Witness ==
    /\ spc = "raised"
    /\ raisedBy = "markup"
    /\ page_source = [present |-> TRUE, len |-> 999]
    /\ calls[Len(calls)] = "driver.page_source"

\* C9: when the page-ready wait has failed on every attempt the retry
\* wrapper makes, scrape does not raise because of it: a warning is logged and
\* scrape goes on to read the markup.
C9_WaitFailureDoesNotRaise ==
    waitFailures = MaxRetries =>
        /\ raisedBy # "wait"
        /\ waitWarnings >= 1
        /\ spc # "raised"

\* C12: every Record returned by scrape(u) has a url field that is not absent
\* and equals the requested URL u: the cleaner neither drops nor rewrites it.
C12_RecordUrlIsRequestedUrl ==
    spc = "returned" => record.url = PyStr(req_url)

\* the calls of the undecorated _wait_for_page_load made so far
WaitAttempts == Len(SelectSeq(calls, LAMBDA c : c = "wait"))

\* the wrapper returned a value to scrape
WaitReturned == spc = "markup" \/ InSeq("driver.page_source", calls)

\* C22 (state part): the wait is attempted at most 3 times and not again
\* after an attempt that did not raise; the wrapper sleeps 2 s after the first
\* failed attempt, 3 s after the second and not after the third; it raises
\* exactly after 3 failed attempts, and what it raises is the exception of the
\* third.  Delays are in tenths of a second.
C22_RetryShape ==
    /\ WaitAttempts <= 3
    /\ WaitAttempts = Len(waitExcs) + (IF WaitReturned THEN 1 ELSE 0)
    /\ waitDelays = SubSeq(<<20, 30>>, 1, IF Len(waitExcs) < 2 THEN Len(waitExcs) ELSE 2)
    /\ (spc = "raised" /\ raisedBy = "wait") <=> (Len(waitExcs) = 3 /\ ~WaitReturned)
    /\ waitRaised = IF Len(waitExcs) = 3 THEN waitExcs[3] ELSE "none"

\* C22: the retry wrapper around the page-ready wait has the shape above and
\* always terminates: a scrape call that has reached the wait leaves it, by a
\* return or by the re-raised exception.
C22_RetryWrapperTerminates ==
    /\ []C22_RetryShape
    /\ (spc = "wait") ~> (spc \in {"markup", "raised"})

\* three attempts raised, the last one differently from the one before, and
\* the wrapper slept twice and raised
C22_Witness ==
    /\ spc = "raised"
    /\ raisedBy = "wait"
    /\ Len(waitExcs) = 3
    /\ waitExcs[3] # waitExcs[2]
    /\ waitRaised = waitExcs[3]
    /\ waitDelays = <<20, 30>>

\* the driver.get calls made so far
GetCalls == Len(SelectSeq(calls, LAMBDA c : c = "driver.get"))

\* C23: in one scrape call driver.get(url) is issued once, and a second time
\* exactly when the comparison after the first one found a mismatch; there is
\* no third; a mismatch that is still there after the second one raises
\* nothing, and scrape goes on to the page-load wait.
C23_NavigateOnceRetryOnce ==
    /\ GetCalls = navGets
    /\ navGets <= 2
    /\ (spc \notin {"start", "clean_state", "navigate"} /\ raisedBy # "driver") => navGets >= 1
    /\ navGets = 2 <=> (navSeen # <<>> /\ ~navSeen[1].matched)
    /\ Len(navSeen) = 2 =>
          /\ raisedBy # "get"
          /\ spc = "wait" \/ InSeq("wait", calls)

\* both comparisons found a mismatch and scrape returned a record
C23_Witness ==
    /\ spc = "returned"
    /\ navGets = 2
    /\ Len(navSeen) = 2
    /\ ~navSeen[1].matched
    /\ ~navSeen[2].matched

\* C24: the comparison after a driver.get finds a match exactly when the
\* current location and the requested URL are equal once the query string
\* and the slashes at the ends are removed; any other location (the home page
\* of the site after a redirect) is a mismatch.
C24_MatchIffNormalizedEqual ==
    \A i \in 1..Len(navSeen) :
        navSeen[i].matched <=> NormalizedUrl(navSeen[i].current) = NormalizedUrl(req_url)

\* the calls of a scrape that returns: the state clear, g navigations, w
\* attempts of the wait, the markup and the extractors, the re-extraction
\* pass if there is one, and clean_data
PhasesInOrder(g, w, re) ==
    <<"driver.delete_all_cookies">> \o [i \in 1..g |-> "driver.get"] \o [i \in 1..w |-> "wait"]
    \o <<"driver.page_source", "extract">>
    \o (IF re THEN <<"reextract", "driver.page_source", "extract">> ELSE <<>>)
    \o <<"clean_data">>

\* C27: a scrape call that returns a Record went through state clear,
\* navigation, page-load wait, extraction, the re-extraction pass if any, and
\* validation, in this order; no extractor runs before the wait has returned;
\* clean_data is called once, after every extractor, and the Record returned
\* is its result.
C27_PhasesInOrder ==
    /\ InSeq("extract", calls) =>
          /\ InSeq("wait", calls)
          /\ CalledBefore("wait", "extract")
          /\ Len(waitExcs) < Len(SelectSeq(calls, LAMBDA c : c = "wait"))
    /\ Len(SelectSeq(calls, LAMBDA c : c = "clean_data")) <= 1
    /\ CalledBefore("extract", "clean_data")
    /\ spc = "returned" =>
          /\ \E g \in 1..2, w \in 1..3, re \in BOOLEAN : calls = PhasesInOrder(g, w, re)
          /\ record = clean_data(raw_data)
    /\ spc # "returned" => record = AbsentRecord

\* a record was returned after two navigations, a wait that raised twice and
\* a re-extraction pass
C27_Witness ==
    /\ spc = "returned"
    /\ calls = PhasesInOrder(2, 3, TRUE)
    /\ record # AbsentRecord

\* the location sub-fields that the claim names
KeptLocationKeys == {"street", "number", "neighborhood", "zipcode", "map_link"}

\* C29: the re-extraction pass loses nothing: a location sub-field that the
\* first extraction found is in the raw record handed to clean_data with the
\* same value, whatever the second location extraction returns.
C29_ReextractionKeepsLocation ==
    reDone = 1 =>
        \A k \in KeptLocationKeys :
            firstData.location.f[k] # PyNone =>
                raw_data.location.f[k] = firstData.location.f[k]

\* ------------------------------------------------------------------------
\* Properties of the batch loop
\* ------------------------------------------------------------------------

\* the URLs whose call returned no data, in list order
RECURSIVE FailedUrls(_, _)
FailedUrls(urls, rets) ==
    IF rets = <<>> THEN <<>>
    ELSE (IF Head(rets) THEN <<>> ELSE <<Head(urls)>>) \o FailedUrls(Tail(urls), Tail(rets))

\* C10: in batch mode scrape is invoked exactly once per valid URL, in list
\* order, whatever failed before; after the loop successful + failed = n and
\* the error list has exactly one entry per failed URL.
C10_BatchVisitsEveryUrlOnce ==
    /\ Len(scrapeCalls) = idx
    /\ scrapeCalls = SubSeq(valid_urls, 1, idx)
    /\ bpc = "done" =>
          /\ scrapeCalls = valid_urls
          /\ successful + failed = Len(valid_urls)
          /\ Len(errors_list) = failed
          /\ [i \in 1..Len(errors_list) |-> errors_list[i].url] = FailedUrls(valid_urls, returned)

\* a batch of three URLs ended with a failure between two successes
C10_Witness ==
    /\ bpc = "done"
    /\ returned = <<TRUE, FALSE, TRUE>>
    /\ Len(errors_list) = 1

\* C30: in batch mode the progress fraction computed after a URL is saved,
\* the length of the history over the number of URLs of the batch, is at most
\* 1 (it is never negative), whatever earlier runs of the session left in the
\* history; so a URL whose record was saved and appended to the history is
\* counted as successful.
C30_ProgressWithinUnitInterval ==
    [][history' = history + 1 =>
          /\ history' <= Len(valid_urls)
          /\ successful' = successful + 1
          /\ failed' = failed]_vars

\* ------------------------------------------------------------------------
\* Properties of the browser session
\* ------------------------------------------------------------------------

\* C11: across the scrape calls of one session, the network strategy for
\* URL k never returns an image whose response was logged while an earlier
\* URL j < k was loaded, also when the call for URL j ended before its log
\* was read.
C11_NoStaleNetworkImages ==
    \A k \in 1..Len(net_images) : \A i \in 1..Len(net_images[k]) :
        \A j \in 1..(k - 1) : net_images[k][i] \notin logged_on[j]

\* ------------------------------------------------------------------------
\* Properties of extract_characteristics
\* ------------------------------------------------------------------------

\* what the text after the title and the text before it give for a key: the
\* value of the markup body
BodyValue(page, key) == FirstMatch(<<page.before[key], page.after[key]>>)

\* the value the feature elements give for the garage: the first match
ElementValue(page) ==
    IF page.findFails THEN PyNone
    ELSE FirstMatch(SelectSeq(page.elements, LAMBDA e : e # PyOther))

\* C25: size_m2, bedrooms, bathrooms and garage each take the first source
\* that is not absent, in the order title, markup body, feature elements: a
\* title value, 0 included, is not replaced, and a body value is not replaced
\* by an element value.
C25_TitleThenBodyThenElements ==
    (chpc = "returned" /\ char_page.kind = "page") =>
        /\ char_result = extract_characteristics(char_page)
        /\ \A k \in CharKeys :
            LET ti == IF char_page.hasTitle THEN char_page.title[k] ELSE PyNone
                el == IF k = "garage" THEN ElementValue(char_page) ELSE PyNone
            IN  char_result[k] = FirstMatch(<<ti, BodyValue(char_page, k), el>>)

========================================================================
